---- MODULE Spec2Model ----
(***************************************************************************)
(* Model of the retrieval core of AI_LEGAL_ASSIST.                         *)
(*                                                                         *)
(* Part 1: backend/utils/vector_store.py, class VectorStore: the FAISS     *)
(* index, the documents dictionary, the two files index.faiss and          *)
(* documents.pkl under store_path, and the operations add_document,        *)
(* search, delete_document, _save_store and _load_store.                   *)
(*                                                                         *)
(* Conventions.  A chunk text is a number of Texts; 0 is the empty string  *)
(* (the only text that is falsy in Python).  Global indices are 0-based as *)
(* in the code; the vector with global index g is index.vecs[g + 1].       *)
(* The metadata argument of add_document is stored and never read by any   *)
(* operation of the class, so it is left out of the entries.               *)
(***************************************************************************)
EXTENDS Integers, Sequences, FiniteSets, TLC

\* ------------------------------------------------------------------ bounds
MaxChunks == 2      \* longest chunk list handed to one add_document call
MaxTotal == 3       \* add_document is not called once index.ntotal would pass it
MaxTopK == 2        \* largest top_k handed to search
MaxFaults == 1      \* failed or interrupted _save_store calls in one behaviour

DocIds == {"A", "B"}
Texts == {0, 1, 2}
NoDoc == "-"        \* document_id = None

\* The document texts of the model, already chunked: the chunks of "A" all
\* read alike, those of "B" differ from each other and from A's, and one of
\* them is the empty string.  add_document gets a document's first n chunks.
ChunkText(d, i) == IF d = "A" THEN 1 ELSE (i + 1) % 3

Chunks(d, n) == [i \in 1..n |-> ChunkText(d, i)]

Max(a, b) == IF a >= b THEN a ELSE b

\* ------------------------------------------------------- embeddings, FAISS
\* SentenceTransformer.encode: a deterministic function of the text.  A vector
\* is kept as its direction (an angle in degrees) and its length.
EncodeOne(text) == [angle |-> 30 * text, norm |-> 1 + text]

Encode(chunks) == [i \in 1..Len(chunks) |-> EncodeOne(chunks[i])]

\* faiss.normalize_L2: every row scaled to unit length, in place.
NormalizeL2(embeddings) ==
    [i \in 1..Len(embeddings) |-> [embeddings[i] EXCEPT !.norm = 1]]

\* cosine of an angle difference, times 100
Cos100(deg) ==
    CASE deg = 0 -> 100
      [] deg = 30 -> 87
      [] deg = 60 -> 50
      [] OTHER -> 0

AbsDiff(a, b) == IF a >= b THEN a - b ELSE b - a

\* IndexFlatIP: the score of a stored vector is its inner product with the query
InnerProduct(u, v) == u.norm * v.norm * Cos100(AbsDiff(u.angle, v.angle))

None == [present |-> FALSE, vecs |-> <<>>]

IndexFlatIP == [present |-> TRUE, vecs |-> <<>>]

Ntotal(ix) == Len(ix.vecs)

IndexAdd(ix, embeddings) == [ix EXCEPT !.vecs = ix.vecs \o embeddings]

\* index.search(q, n): the n best (score descending; equal scores in ascending
\* index order), padded with -1 when the index holds fewer than n vectors.
RECURSIVE FaissSearch(_, _, _, _)
FaissSearch(vecs, qv, n, taken) ==
    IF n = 0 THEN <<>>
    ELSE LET cand == (1..Len(vecs)) \ taken
         IN  IF cand = {}
             THEN <<[idx |-> -1, score |-> 0]>> \o FaissSearch(vecs, qv, n - 1, taken)
             ELSE LET best == CHOOSE i \in cand : \A j \in cand :
                                  \/ InnerProduct(qv, vecs[i]) > InnerProduct(qv, vecs[j])
                                  \/ /\ InnerProduct(qv, vecs[i]) = InnerProduct(qv, vecs[j])
                                     /\ i <= j
                  IN  <<[idx |-> best - 1, score |-> InnerProduct(qv, vecs[best])]>>
                      \o FaissSearch(vecs, qv, n - 1, taken \cup {best})

\* ------------------------------------------------- the documents dictionary
\* self.documents is a Python dict: kept as the sequence of its entries in
\* insertion order, which is the order _get_chunk_by_index scans.
Keys(docs) == {docs[i].id : i \in 1..Len(docs)}

Pos(docs, d) == CHOOSE i \in 1..Len(docs) : docs[i].id = d

Entry(docs, d) == docs[Pos(docs, d)]

\* documents[d] = e: an existing key keeps its place, a new key goes last
DictSet(docs, d, e) ==
    IF d \in Keys(docs) THEN [docs EXCEPT ![Pos(docs, d)] = e] ELSE Append(docs, e)

\* a delete that leaves the entry in place
DictDelKeeps(docs, d) == docs

\* del documents[d]
DictDel(docs, d) ==
    LET p == Pos(docs, d)
    IN  [i \in 1..(Len(docs) - 1) |-> IF i < p THEN docs[i] ELSE docs[i + 1]]

\* --------------------------------------------------------------- search
RECURSIVE ScanDocs(_, _, _)
ScanDocs(docs, g, i) ==
    IF i > Len(docs) THEN [found |-> FALSE, text |-> 0, doc |-> NoDoc]
    ELSE IF /\ docs[i].start_idx <= g
            /\ g < docs[i].end_idx
            /\ g - docs[i].start_idx < Len(docs[i].chunks)
         THEN [found |-> TRUE,
               text |-> docs[i].chunks[g - docs[i].start_idx + 1],
               doc |-> docs[i].id]
         ELSE ScanDocs(docs, g, i + 1)

GetChunkByIndex(docs, g) == ScanDocs(docs, g, 1)

\* the loop of search over the hits; a result keeps, next to (chunk_text,
\* score), the document the text was read from and the global index.
RECURSIVE Collect(_, _, _, _, _, _)
Collect(hits, i, docs, document_id, top_k, results) ==
    IF i > Len(hits) THEN results
    ELSE IF hits[i].idx = -1
         THEN Collect(hits, i + 1, docs, document_id, top_k, results)
         ELSE LET c == GetChunkByIndex(docs, hits[i].idx)
                  keep == /\ c.found
                          /\ c.text # 0
                          /\ (document_id = NoDoc \/ c.doc = document_id)
                  next == IF keep
                          THEN Append(results, [text |-> c.text, score |-> hits[i].score,
                                                doc |-> c.doc, idx |-> hits[i].idx])
                          ELSE results
              IN  IF Len(next) >= top_k THEN next
                  ELSE Collect(hits, i + 1, docs, document_id, top_k, next)

\* the number of hits search asks FAISS for
Fetch(top_k) == top_k * 2

Search(ix, docs, query, document_id, top_k) ==
    IF ~ix.present \/ Ntotal(ix) = 0 THEN <<>>
    ELSE LET qv == NormalizeL2(Encode(<<query>>))[1]
         IN  Collect(FaissSearch(ix.vecs, qv, Fetch(top_k), {}), 1,
                     docs, document_id, top_k, <<>>)

\* ------------------------------------------------------------- the state
VARIABLES
    index,        \* self.index: None, or the FAISS index (its vectors in order)
    documents,    \* self.documents
    diskIndex,    \* the file store_path/index.faiss
    diskDocs,     \* the file store_path/documents.pkl
    result,       \* how the last call ended: "returned", "raised", or "crashed"
                  \* (the process died inside it and no object exists any more)
    faults,       \* _save_store calls that failed or were interrupted so far
    deletedSince, \* ids deleted from this object and not added to it again
    allSaved,     \* every _save_store of this object has completed so far
    maxEndEver,   \* largest end_idx any add_document has assigned
    maxEndKept,   \* the same, counted from the last loss of unsaved state
    pc,           \* per request thread: the statement of add_document it is at
    loc,          \* per request thread: its arguments and its local start_idx
    app_documents,    \* app.py: the module-level dict `documents`
    rag_pipeline,     \* app.py: rag_pipeline is not None
    rag_documents,    \* RAGPipeline.documents
    rag_vector_store, \* RAGPipeline.vector_store (a dict, not the VectorStore)
    ai_available,     \* RAGPipeline.ai_available
    response,         \* what the last request of app.py answered
    issued,           \* the document ids uploads have generated so far
    inflight          \* the analyze request that is between two of its steps

vars == <<index, documents, diskIndex, diskDocs, result, faults, deletedSince,
          allSaved, maxEndEver, maxEndKept, pc, loc,
          app_documents, rag_pipeline, rag_documents, rag_vector_store,
          ai_available, response, issued, inflight>>

\* the state of app.py and of its RAGPipeline (part 2)
web == <<app_documents, rag_pipeline, rag_documents, rag_vector_store,
         ai_available, response, issued, inflight>>

NoResponse == [route |-> "none"]

NoRequest == [doc |-> NoDoc, at |-> "idle"]

\* app.py as imported: no document anywhere, no request answered yet; rag is
\* whether a RAGPipeline could be made, ai whether it has a model
WebInit(rag, ai) ==
    /\ app_documents = <<>>
    /\ rag_pipeline = rag
    /\ rag_documents = <<>>
    /\ rag_vector_store = <<>>
    /\ ai_available = ai
    /\ response = NoResponse
    /\ issued = {}
    /\ inflight = NoRequest

\* the request threads of the server that share the one VectorStore object,
\* and the document each of them adds
Threads == {1, 2}

ThreadDoc(t) == IF t = 1 THEN "A" ELSE "B"

threads == <<pc, loc>>

alive == result # "crashed"

Absent == [state |-> "absent", data |-> <<>>]

Corrupt == [state |-> "corrupt", data |-> <<>>]

\* faiss.write_index / faiss.read_index of an IndexFlatIP: ntotal and the vectors
WriteIndex(ix) == [state |-> "ok", data |-> ix.vecs]

ReadIndex(file) == [present |-> TRUE, vecs |-> file.data]

\* pickle.dump / pickle.load of the dictionary (entries and their order)
PickleDump(docs) == [state |-> "ok", data |-> docs]

PickleLoad(file) == file.data

\* ---------------------------------------------------------- _save_store
\* How one _save_store call ends.  An exception is caught and printed; a crash
\* of the process at the same place leaves the same files.
\*   ok              both writes complete
\*   makedirs_fail   nothing is written (also: write_index cannot open its file)
\*   index_fail      write_index stops part-way: index.faiss is truncated
\*   docs_open_fail  index.faiss is written, documents.pkl is never opened
\*   docs_dump_fail  index.faiss is written, documents.pkl is opened (truncated)
\*                   and its dump stops part-way
SaveOutcomes == {"ok", "makedirs_fail", "index_fail", "docs_open_fail", "docs_dump_fail"}

\* a save that skips the index file
SaveStoreDocsOnly(ix, docs, di, dd, outcome) ==
    [index |-> di, docs |-> IF outcome = "ok" THEN PickleDump(docs) ELSE dd]

SaveStore(ix, docs, di, dd, outcome) ==
    LET indexWritten == IF ix.present THEN WriteIndex(ix) ELSE di
    IN  CASE outcome = "ok" -> [index |-> indexWritten, docs |-> PickleDump(docs)]
          [] outcome = "makedirs_fail" -> [index |-> di, docs |-> dd]
          [] outcome = "index_fail" -> [index |-> Corrupt, docs |-> dd]
          [] outcome = "docs_open_fail" -> [index |-> indexWritten, docs |-> dd]
          [] outcome = "docs_dump_fail" -> [index |-> indexWritten, docs |-> Corrupt]

\* what the caller of add_document / delete_document gets from a call whose
\* _save_store ended with `outcome`: the exception is caught inside _save_store
CallResult(outcome) == "returned"

\* ---------------------------------------------------------- _load_store
\* raised: an exception was caught, and index and documents were reset
LoadStore(di, dd) ==
    IF di.state = "corrupt" \/ dd.state = "corrupt"
    THEN [index |-> None, documents |-> <<>>, raised |-> TRUE]
    ELSE [index |-> IF di.state = "ok" THEN ReadIndex(di) ELSE None,
          documents |-> IF dd.state = "ok" THEN PickleLoad(dd) ELSE <<>>,
          raised |-> FALSE]

\* --------------------------------------------------------- add_document
\* The statements of the try block that can raise, in order.
FailPoints == {"encode", "create", "normalize", "add"}

\* a raise that comes only after index.add has appended the vectors
AddFailureAfterAppend(ix, embeddings, failAt) ==
    IF failAt = "add" THEN IndexAdd(IF ix.present THEN ix ELSE IndexFlatIP, embeddings)
    ELSE IF failAt = "normalize" /\ ~ix.present THEN IndexFlatIP ELSE ix

\* self.index after add_document raised at failAt: the index created at line 30
\* stays when a later statement raises
AddFailure(ix, embeddings, failAt) ==
    IF failAt \in {"normalize", "add"} /\ ~ix.present THEN IndexFlatIP ELSE ix

\* a start index that is one short of the index size
StartIdxOffByOne(ix) == IF Ntotal(ix) > 0 THEN Ntotal(ix) - 1 ELSE 0

\* start_idx = self.index.ntotal
StartIdx(ix) == Ntotal(ix)

\* index and documents after lines 26-45 have run without raising
AddCommit(ix, docs, d, chunks) ==
    LET ix0 == IF ix.present THEN ix ELSE IndexFlatIP
        embeddings == NormalizeL2(Encode(chunks))
        start_idx == StartIdx(ix0)
    IN  [index |-> IndexAdd(ix0, embeddings),
         documents |-> DictSet(docs, d, [id |-> d, chunks |-> chunks,
                                        start_idx |-> start_idx,
                                        end_idx |-> start_idx + Len(chunks)])]

Init ==
    /\ index = None
    /\ documents = <<>>
    /\ diskIndex = Absent
    /\ diskDocs = Absent
    /\ result = "returned"
    /\ faults = 0
    /\ deletedSince = {}
    /\ allSaved = TRUE
    /\ maxEndEver = 0
    /\ maxEndKept = 0
    /\ pc = [t \in Threads |-> "idle"]
    /\ loc = [t \in Threads |-> [chunks |-> <<>>, start_idx |-> 0]]
    /\ WebInit(TRUE, FALSE)

\* add_document raises (wrapped in "Failed to add document to vector store")
AddDocumentRaises(d, chunks, failAt) ==
    /\ alive
    /\ Ntotal(index) + Len(chunks) <= MaxTotal
    /\ index' = AddFailure(index, NormalizeL2(Encode(chunks)), failAt)
    /\ result' = "raised"
    /\ UNCHANGED <<documents, diskIndex, diskDocs, faults, deletedSince, allSaved,
                   maxEndEver, maxEndKept, pc, loc>>
    /\ UNCHANGED web

\* add_document runs to its _save_store, which ends with `outcome`; with
\* crash, the process dies there instead of catching an exception
AddDocument(d, chunks, outcome, crash) ==
    /\ alive
    /\ Ntotal(index) + Len(chunks) <= MaxTotal
    /\ crash => outcome # "ok"
    /\ outcome # "ok" => faults < MaxFaults
    /\ LET new == AddCommit(index, documents, d, chunks)
           disk == SaveStore(new.index, new.documents, diskIndex, diskDocs, outcome)
       IN  /\ index' = new.index
           /\ documents' = new.documents
           /\ diskIndex' = disk.index
           /\ diskDocs' = disk.docs
           /\ maxEndEver' = Max(maxEndEver, Entry(new.documents, d).end_idx)
           /\ maxEndKept' = Max(maxEndKept, Entry(new.documents, d).end_idx)
    /\ result' = IF crash THEN "crashed" ELSE CallResult(outcome)
    /\ faults' = IF outcome = "ok" THEN faults ELSE faults + 1
    /\ allSaved' = (allSaved /\ outcome = "ok")
    /\ deletedSince' = deletedSince \ {d}
    /\ UNCHANGED threads
    /\ UNCHANGED web

\* delete_document of an id that is in self.documents
DeleteDocument(d, outcome, crash) ==
    /\ alive
    /\ d \in Keys(documents)
    /\ crash => outcome # "ok"
    /\ outcome # "ok" => faults < MaxFaults
    /\ outcome = "index_fail" => index.present
    /\ LET docs == DictDel(documents, d)
           disk == SaveStore(index, docs, diskIndex, diskDocs, outcome)
       IN  /\ documents' = docs
           /\ diskIndex' = disk.index
           /\ diskDocs' = disk.docs
    /\ result' = IF crash THEN "crashed" ELSE CallResult(outcome)
    /\ faults' = IF outcome = "ok" THEN faults ELSE faults + 1
    /\ allSaved' = (allSaved /\ outcome = "ok")
    /\ deletedSince' = deletedSince \cup {d}
    /\ UNCHANGED <<index, maxEndEver, maxEndKept, pc, loc>>
    /\ UNCHANGED web

\* delete_document of an id that is not in self.documents: nothing happens
DeleteUnknown(d) ==
    /\ alive
    /\ d \notin Keys(documents)
    /\ result' = "returned"
    /\ UNCHANGED <<index, documents, diskIndex, diskDocs, faults, deletedSince,
                   allSaved, maxEndEver, maxEndKept, pc, loc>>
    /\ UNCHANGED web

\* VectorStore(store_path): a new object, by the same or a restarted process
Restart ==
    /\ LET loaded == LoadStore(diskIndex, diskDocs)
       IN  /\ index' = loaded.index
           /\ documents' = loaded.documents
    /\ result' = "returned"
    /\ deletedSince' = {}
    /\ allSaved' = TRUE
    /\ maxEndKept' = IF alive /\ allSaved THEN maxEndKept ELSE 0
    /\ UNCHANGED <<diskIndex, diskDocs, faults, maxEndEver, pc, loc>>
    /\ UNCHANGED web

Next ==
    \/ \E d \in DocIds, n \in 1..MaxChunks, failAt \in FailPoints :
           AddDocumentRaises(d, Chunks(d, n), failAt)
    \/ \E d \in DocIds, n \in 1..MaxChunks, outcome \in SaveOutcomes, crash \in BOOLEAN :
           AddDocument(d, Chunks(d, n), outcome, crash)
    \/ \E d \in DocIds, outcome \in SaveOutcomes, crash \in BOOLEAN :
           DeleteDocument(d, outcome, crash)
    \/ \E d \in DocIds : DeleteUnknown(d)
    \/ Restart

Spec == Init /\ [][Next]_vars

\* The same program with its data directory changed from outside: one of
\* the two files is removed between two runs (_load_store tests each file's
\* existence on its own).
LoseFile(which) ==
    /\ \/ which = "index.faiss" /\ diskIndex.state # "absent"
          /\ diskIndex' = Absent /\ UNCHANGED diskDocs
       \/ which = "documents.pkl" /\ diskDocs.state # "absent"
          /\ diskDocs' = Absent /\ UNCHANGED diskIndex
    /\ UNCHANGED <<index, documents, result, faults, deletedSince, allSaved,
                   maxEndEver, maxEndKept, pc, loc>>
    /\ UNCHANGED web

NextEnv ==
    \/ Next
    \/ \E which \in {"index.faiss", "documents.pkl"} : LoseFile(which)

SpecEnv == Init /\ [][NextEnv]_vars

\* ------------------------------------------- add_document in two threads
\* The server handles each request in a thread of its own, and every thread
\* uses the one VectorStore object; add_document takes no lock.  A thread can
\* be switched out between any two of the statements below.
ghosts == <<result, faults, deletedSince, allSaved, maxEndEver, maxEndKept>>

Goto(t, label) == pc' = [pc EXCEPT ![t] = label]

\* the call and line 26: embeddings = self.model.encode(chunks)
TStart(t, n) ==
    /\ pc[t] = "idle"
    /\ loc' = [loc EXCEPT ![t].chunks = Chunks(ThreadDoc(t), n)]
    /\ Goto(t, "check")
    /\ UNCHANGED <<index, documents, diskIndex, diskDocs, ghosts>>
    /\ UNCHANGED web

\* line 29: if self.index is None
TCheck(t) ==
    /\ pc[t] = "check"
    /\ Goto(t, IF index.present THEN "read" ELSE "create")
    /\ UNCHANGED <<index, documents, diskIndex, diskDocs, ghosts, loc>>
    /\ UNCHANGED web

\* line 30: self.index = faiss.IndexFlatIP(self.dimension)
TCreate(t) ==
    /\ pc[t] = "create"
    /\ index' = IndexFlatIP
    /\ Goto(t, "read")
    /\ UNCHANGED <<documents, diskIndex, diskDocs, ghosts, loc>>
    /\ UNCHANGED web

\* line 36: start_idx = self.index.ntotal
TRead(t) ==
    /\ pc[t] = "read"
    /\ loc' = [loc EXCEPT ![t].start_idx = StartIdx(index)]
    /\ Goto(t, "add")
    /\ UNCHANGED <<index, documents, diskIndex, diskDocs, ghosts>>
    /\ UNCHANGED web

\* line 37: self.index.add(embeddings)
TAdd(t) ==
    /\ pc[t] = "add"
    /\ index' = IndexAdd(index, NormalizeL2(Encode(loc[t].chunks)))
    /\ Goto(t, "record")
    /\ UNCHANGED <<documents, diskIndex, diskDocs, ghosts, loc>>
    /\ UNCHANGED web

\* lines 40-45: self.documents[document_id] = {...}
TRecord(t) ==
    /\ pc[t] = "record"
    /\ documents' = DictSet(documents, ThreadDoc(t),
                            [id |-> ThreadDoc(t), chunks |-> loc[t].chunks,
                             start_idx |-> loc[t].start_idx,
                             end_idx |-> loc[t].start_idx + Len(loc[t].chunks)])
    /\ Goto(t, "save_index")
    /\ UNCHANGED <<index, diskIndex, diskDocs, ghosts, loc>>
    /\ UNCHANGED web

\* lines 114-115 of _save_store: faiss.write_index
TSaveIndex(t) ==
    /\ pc[t] = "save_index"
    /\ diskIndex' = WriteIndex(index)
    /\ Goto(t, "save_docs")
    /\ UNCHANGED <<index, documents, diskDocs, ghosts, loc>>
    /\ UNCHANGED web

\* lines 118-119 of _save_store: pickle.dump, and the return
TSaveDocs(t) ==
    /\ pc[t] = "save_docs"
    /\ diskDocs' = PickleDump(documents)
    /\ Goto(t, "done")
    /\ UNCHANGED <<index, documents, diskIndex, ghosts, loc>>
    /\ UNCHANGED web

NextConc ==
    \E t \in Threads :
        \/ \E n \in 1..MaxChunks : TStart(t, n)
        \/ TCheck(t)
        \/ TCreate(t)
        \/ TRead(t)
        \/ TAdd(t)
        \/ TRecord(t)
        \/ TSaveIndex(t)
        \/ TSaveDocs(t)

SpecConc == Init /\ [][NextConc]_vars

\* ------------------------------------------------------------ the claims
Filters == DocIds \cup {NoDoc}

TopKs == 1..MaxTopK

SameStore(ix1, docs1, ix2, docs2) == ix1.vecs = ix2.vecs /\ docs1 = docs2

\* global indices no live document's range covers
Orphans == {g \in 0..(Ntotal(index) - 1) : ~GetChunkByIndex(documents, g).found}

\* C1: after delete_document(d) has returned, and until d is added again, no
\* search of this object (any query, any top_k, any document_id) returns a
\* chunk read from d's entry.
C1_DeletedNeverReturned ==
    (alive /\ deletedSince # {}) =>
        \A q \in Texts, f \in Filters, k \in TopKs :
            LET r == Search(index, documents, q, f, k)
            IN  \A i \in 1..Len(r) : r[i].doc \notin deletedSince

\* a document was deleted, its vectors are still in the index, and a search
\* over the whole index returns chunks
C1_Witness ==
    /\ alive
    /\ deletedSince # {}
    /\ Orphans # {}
    /\ \E q \in Texts, k \in TopKs : Len(Search(index, documents, q, NoDoc, k)) >= 1

\* C2: the ranges [start_idx, end_idx) of self.documents are pairwise
\* non-overlapping and lie inside [0, index.ntotal).
C2_RangesDisjointInBounds ==
    alive =>
        /\ \A i \in 1..Len(documents) :
               /\ 0 <= documents[i].start_idx
               /\ documents[i].start_idx <= documents[i].end_idx
               /\ documents[i].end_idx <= Ntotal(index)
        /\ \A i, j \in 1..Len(documents) :
               i < j => \/ documents[i].end_idx <= documents[j].start_idx
                        \/ documents[j].end_idx <= documents[i].start_idx

\* the positions (1-based) of the vectors of d's chunks that have a text
LivePositions(d) ==
    IF d \notin Keys(documents) THEN {}
    ELSE LET e == Entry(documents, d)
         IN  {g + 1 : g \in {h \in e.start_idx..(e.end_idx - 1) :
                                e.chunks[h - e.start_idx + 1] # 0}}

\* the k best of d's chunks for a query, best first
BestOfDocument(d, q, k) ==
    LET live == LivePositions(d)
        n == IF Cardinality(live) < k THEN Cardinality(live) ELSE k
    IN  FaissSearch(index.vecs, NormalizeL2(Encode(<<q>>))[1], n,
                    (1..Ntotal(index)) \ live)

\* C3: search(query, document_id = d, top_k = k) returns the k highest-scoring
\* chunks of d (all of them if d has fewer), best first, whatever else the
\* index holds.  Stated for the states in which the ranges are well-formed.
C3_FilteredTopK ==
    (alive /\ C2_RangesDisjointInBounds) =>
        \A q \in Texts, d \in DocIds, k \in TopKs :
            LET r == Search(index, documents, q, d, k)
            IN  [i \in 1..Len(r) |-> [idx |-> r[i].idx, score |-> r[i].score]]
                    = BestOfDocument(d, q, k)

\* C4: a call of add_document that raises leaves self.documents and
\* index.ntotal (and the files) as they were.
C4_AddAllOrNothing ==
    [][result' = "raised" =>
          /\ documents' = documents
          /\ Ntotal(index') = Ntotal(index)
          /\ diskIndex' = diskIndex
          /\ diskDocs' = diskDocs]_vars

\* add_document has raised on a store that holds documents
C4_Witness == result = "raised" /\ Len(documents) >= 1 /\ Ntotal(index) >= 1

\* C5: while every save of this object has completed, a new VectorStore on
\* the same store_path holds the same documents and the same vectors, and
\* every search gives the same result list.
C5_RoundTrip ==
    (alive /\ allSaved) =>
        LET l == LoadStore(diskIndex, diskDocs)
        IN  /\ SameStore(l.index, l.documents, index, documents)
            /\ \A q \in Texts, f \in Filters, k \in TopKs :
                   Search(l.index, l.documents, q, f, k) = Search(index, documents, q, f, k)

\* saved adds and a saved delete, with chunks to find
C5_Witness ==
    /\ alive /\ allSaved
    /\ deletedSince # {}
    /\ diskIndex.state = "ok" /\ diskDocs.state = "ok"
    /\ \E q \in Texts : Len(Search(index, documents, q, NoDoc, 1)) = 1

\* C6: a crash inside _save_store never leaves a loadable pair of files that
\* is neither the store before the mutation nor the store after it.
C6_CrashLeavesBeforeOrAfter ==
    [][result' = "crashed" =>
          LET before == LoadStore(diskIndex, diskDocs)
              l == LoadStore(diskIndex', diskDocs')
          IN  ~l.raised =>
                  \/ SameStore(l.index, l.documents, before.index, before.documents)
                  \/ SameStore(l.index, l.documents, index', documents')]_vars

\* C7: a constructor that finds a file corrupt or missing starts empty: no
\* live documents, and every search returns the empty list.
C7_FailedRestoreStartsEmpty ==
    [][(Restart /\ (diskIndex.state # "ok" \/ diskDocs.state # "ok")) =>
          /\ documents' = <<>>
          /\ \A q \in Texts, f \in Filters, k \in TopKs :
                 Search(index', documents', q, f, k) = <<>>]_vars

\* C8: a call whose _save_store failed reports that to its caller.
C8_SaveFailureReported ==
    [][(faults' = faults + 1 /\ result' # "crashed") => result' = "raised"]_vars

\* the step is a call add_document(d, Chunks(d, n)) that reached its save
AddedStep(d, n) ==
    /\ alive
    /\ Ntotal(index') = Ntotal(index) + n
    /\ d \in Keys(documents')
    /\ \E outcome \in SaveOutcomes, crash \in BOOLEAN :
           AddDocument(d, Chunks(d, n), outcome, crash)

\* C9: the start_idx add_document assigns is at least the end_idx of every
\* range ever assigned before.
C9_NeverReused ==
    [][\A d \in DocIds, n \in 1..MaxChunks :
          AddedStep(d, n) => Entry(documents', d).start_idx >= maxEndEver]_vars

\* C9 as amended: the start_idx is at least the end_idx of every range
\* assigned since unsaved state was last lost, that is within one object and
\* across reloads that follow completed saves only.
C9_NeverReusedWhileKept ==
    [][\A d \in DocIds, n \in 1..MaxChunks :
          AddedStep(d, n) => Entry(documents', d).start_idx >= maxEndKept]_vars

\* a document added after another one was deleted got indices past the
\* deleted range
C9_Witness ==
    /\ alive
    /\ deletedSince # {}
    /\ Len(documents) = 1
    /\ documents[1].start_idx >= 1
    /\ documents[1].end_idx = maxEndKept
    /\ Orphans = 0..(documents[1].start_idx - 1)

\* the store after the two calls have run one after the other, first then second
Serial(first, second) ==
    LET s1 == AddCommit(None, <<>>, ThreadDoc(first), loc[first].chunks)
    IN  AddCommit(s1.index, s1.documents, ThreadDoc(second), loc[second].chunks)

Entries(docs) == {docs[i] : i \in 1..Len(docs)}

\* C10: two concurrent add_document calls for different ids end in the state
\* of one of the two sequential orders (same vectors, same entries, same
\* files).
C10_ConcurrentAddsSerializable ==
    (\A t \in Threads : pc[t] = "done") =>
        \E first \in Threads :
            LET s == Serial(first, CHOOSE t \in Threads : t # first)
            IN  /\ index = s.index
                /\ Entries(documents) = Entries(s.documents)
                /\ diskIndex = WriteIndex(s.index)
                /\ Entries(diskDocs.data) = Entries(s.documents)

\* ==========================================================================
\* Part 2: backend/utils/pipeline.py (class RAGPipeline) and the routes of
\* backend/app.py that use it: upload, analyze, question and delete.
\*
\* A Python str is kept as the sequence of its characters, each a string of
\* length one, so that `in`, find, split, strip, slices and the regular
\* expressions of the code are computed and not assumed.  A dict that is a
\* result payload is kept as a record with the keys the code sets.
\* ==========================================================================

\* the characters of a str literal
Chars(str) == [i \in 1..Len(str) |-> SubSeq(str, i, i)]

\* ------------------------------------------------------------ Python str
Whitespace == {" ", "\t", "\n"}

\* the lower-case letter of each upper-case letter
LowerOf ==
    [A |-> "a", B |-> "b", C |-> "c", D |-> "d", E |-> "e", F |-> "f", G
     |-> "g", H |-> "h", I |-> "i", J |-> "j", K |-> "k", L |-> "l", M |->
     "m", N |-> "n", O |-> "o", P |-> "p", Q |-> "q", R |-> "r", S |-> "s",
     T |-> "t", U |-> "u", V |-> "v", W |-> "w", X |-> "x", Y |-> "y", Z
     |-> "z"]

UpperCase == DOMAIN LowerOf

LowerChar(c) == IF c \in UpperCase THEN LowerOf[c] ELSE c

\* s.lower()
Lower(s) == [i \in 1..Len(s) |-> LowerChar(s[i])]

Min(S) == CHOOSE x \in S : \A y \in S : x <= y

\* sub occurs in s at the 1-based position i
StartsAt(s, sub, i) ==
    /\ i + Len(sub) - 1 <= Len(s)
    /\ \A j \in 1..Len(sub) : s[i + j - 1] = sub[j]

\* s.find(sub, start): the lowest 0-based index at or after start, or -1
Find(s, sub, start) ==
    LET hits == {i \in (start + 1)..(Len(s) - Len(sub) + 1) : StartsAt(s, sub, i)}
    IN  IF hits = {} THEN -1 ELSE Min(hits) - 1

\* sub in s
Contains(s, sub) == \E i \in 1..(Len(s) - Len(sub) + 1) : StartsAt(s, sub, i)

\* s[a:b] for 0 <= a
Slice(s, a, b) == SubSeq(s, a + 1, IF b > Len(s) THEN Len(s) ELSE b)

\* s[a:]
SliceFrom(s, a) == SubSeq(s, a + 1, Len(s))

\* s.strip(): without the whitespace before the first and behind the last
\* character that is not whitespace
Strip(s) ==
    LET keep == {i \in 1..Len(s) : s[i] \notin Whitespace}
        trailing == {i \in 1..Len(s) : \A j \in i..Len(s) : s[j] \in Whitespace}
    IN  IF keep = {} THEN <<>>
        ELSE SubSeq(s, Min(keep), Len(s) - Cardinality(trailing))

\* the elements of a set of numbers, in ascending order
Sorted(S) == [k \in 1..Cardinality(S) |-> CHOOSE x \in S : Cardinality({y \in S : y < x}) = k - 1]

\* s.split(sep) for a separator of one character: the pieces between the
\* separators, empty pieces included
SplitOn(s, sep) ==
    LET cuts == <<0>> \o Sorted({i \in 1..Len(s) : s[i] = sep}) \o <<Len(s) + 1>>
    IN  [k \in 1..(Len(cuts) - 1) |-> SubSeq(s, cuts[k] + 1, cuts[k + 1] - 1)]

\* s.split(sep, 1)
SplitOnce(s, sep) ==
    LET p == Find(s, <<sep>>, 0)
    IN  IF p = -1 THEN <<s>> ELSE <<Slice(s, 0, p), SliceFrom(s, p + 1)>>

\* s.split(): the maximal runs of characters that are not whitespace
SplitWords(s) ==
    LET starts == Sorted({i \in 1..Len(s) :
                     s[i] \notin Whitespace /\ (i = 1 \/ s[i - 1] \in Whitespace)})
        stops == Sorted({i \in 1..Len(s) :
                     s[i] \notin Whitespace /\ (i = Len(s) \/ s[i + 1] \in Whitespace)})
    IN  [k \in 1..Len(starts) |-> SubSeq(s, starts[k], stops[k])]

\* sep.join(parts)
RECURSIVE Join(_, _)
Join(parts, sep) ==
    IF parts = <<>> THEN <<>>
    ELSE IF Len(parts) = 1 THEN parts[1]
    ELSE parts[1] \o sep \o Join(Tail(parts), sep)

Digit(n) == <<Chars("0123456789")[n + 1]>>

\* str(n) for n >= 0
RECURSIVE Str(_)
Str(n) == IF n < 10 THEN Digit(n) ELSE Str(n \div 10) \o Digit(n % 10)

\* s[:n] + tail if len(s) > n else s
Truncate(s, n, tail) == IF Len(s) > n THEN Slice(s, 0, n) \o tail ELSE s

\* ---------------------------------------------------- _clean_ai_response
\* a cleaning that leaves the asterisks in
KeepAsterisks(s) == s

\* re.sub(r'\*+', '', text)
RemoveAsterisks(s) == SelectSeq(s, LAMBDA c : c # "*")

\* re.sub(r'__([^_]+)__', r'\1', text): the leftmost "__" that is followed by
\* one or more characters other than "_" and then by "__" is replaced, with
\* its closing "__", by what stands between them; the scan goes on behind it
CloseOf(s, i) ==
    LET under == {j \in (i + 2)..Len(s) : s[j] = "_"}
    IN  IF under = {} THEN 0 ELSE Min(under)

RECURSIVE RemoveUnderscoreBold(_)
RemoveUnderscoreBold(s) ==
    LET opens == {i \in 1..Len(s) : /\ StartsAt(s, <<"_", "_">>, i)
                                    /\ CloseOf(s, i) > i + 2
                                    /\ StartsAt(s, <<"_", "_">>, CloseOf(s, i))}
    IN  IF opens = {} THEN s
        ELSE LET i == Min(opens)
             IN  SubSeq(s, 1, i - 1) \o SubSeq(s, i + 2, CloseOf(s, i) - 1)
                 \o RemoveUnderscoreBold(SubSeq(s, CloseOf(s, i) + 2, Len(s)))

\* the last position of the run of whitespace that starts at position i
RunEnd(s, i) ==
    LET others == {j \in i..Len(s) : s[j] \notin Whitespace}
    IN  IF others = {} THEN Len(s) ELSE Min(others) - 1

LineBreaks(s, i) == {j \in i..RunEnd(s, i) : s[j] = "\n"}

\* re.sub(r'\n\s*\n\s*\n', '\n\n', text): the leftmost line break whose run of
\* whitespace holds two more line breaks is replaced, up to the last line
\* break of the run, by two line breaks; the scan goes on behind it
RECURSIVE CollapseLineBreaks(_)
CollapseLineBreaks(s) ==
    LET heads == {i \in 1..Len(s) : s[i] = "\n" /\ Cardinality(LineBreaks(s, i)) >= 3}
    IN  IF heads = {} THEN s
        ELSE LET i == Min(heads)
                 last == CHOOSE j \in LineBreaks(s, i) : \A k \in LineBreaks(s, i) : k <= j
             IN  SubSeq(s, 1, i - 1) \o <<"\n", "\n">>
                 \o CollapseLineBreaks(SubSeq(s, last + 1, Len(s)))

\* re.sub(r'[ \t]+', ' ', text): the first character of a run becomes a
\* space, the others go
CollapseSpaces(s) ==
    LET Blank == {" ", "\t"}
        marked == [i \in 1..Len(s) |->
                      IF s[i] \notin Blank THEN s[i]
                      ELSE IF i > 1 /\ s[i - 1] \in Blank THEN "" ELSE " "]
    IN  SelectSeq(marked, LAMBDA c : c # "")

\* '\n'.join([line.strip() for line in text.split('\n')])
StripLines(s) ==
    LET lines == SplitOn(s, "\n")
    IN  Join([i \in 1..Len(lines) |-> Strip(lines[i])], <<"\n">>)

\* the two substitutions of lines 199-200 find no asterisk after line 195
CleanAiResponse(text) ==
    Strip(StripLines(CollapseSpaces(CollapseLineBreaks(
        RemoveUnderscoreBold(RemoveAsterisks(text))))))

\* ------------------------------------------------------- document texts
\* The chunk texts of part 1, spelled out.  Text 1 is shorter than the 20
\* characters answer_question asks for, two copies of it joined are between
\* 20 and 50 characters, and text 2 is longer than the 50 characters
\* analyze_document asks for before it calls the external model.
Content(text) ==
    CASE text = 0 -> <<>>
      [] text = 1 -> Chars("Termination fee.")
      [] text = 2 -> Chars("Employee liability and confidential salary payment.")

\* app.py line 300-302: chunks.append({'page_content': chunk_text})
PageDocs(chunks) == [i \in 1..Len(chunks) |-> [page_content |-> Content(chunks[i])]]

\* The chunk lists of the documents that are uploaded: "A" is empty, or has
\* one chunk, or two; "B" has a chunk followed by an empty one.
Uploadable(d) ==
    IF d = "A" THEN {Chunks("A", 0), Chunks("A", 1), Chunks("A", 2)}
    ELSE {Chunks("B", 2)}

UploadPairs == UNION {{<<d, chunks>> : chunks \in Uploadable(d)} : d \in DocIds}

\* A table of the values of a function over the inputs of the model is
\* written [x \in S |-> F(x)] @@ <<>>, which is the same function, tabulated
\* once.

\* ------------------------------------------------------------ Python dict
\* A result payload is a function from its keys to their values.
\* a.update(b)
Update(a, b) ==
    [k \in (DOMAIN a) \cup (DOMAIN b) |-> IF k \in DOMAIN b THEN b[k] ELSE a[k]]

\* a.get(k, default)
Get(a, k, default) == IF k \in DOMAIN a THEN a[k] ELSE default

\* any(word in text for word in words)
AnyIn(words, text) == \E i \in 1..Len(words) : Contains(text, words[i])

\* ------------------------------------------------- _create_error_analysis
CreateErrorAnalysis(document_id, error_msg) ==
    [document_id |-> document_id,
     document_type |-> Chars("Error"),
     summary |-> Chars("Document processing encountered an issue: ") \o error_msg,
     risks_analysis |-> Chars("Could not analyze risks due to processing error"),
     key_terms |-> Chars("Could not extract key terms"),
     document_length |-> 0,
     chunk_count |-> 0,
     word_count |-> 0,
     error |-> error_msg,
     ai_enhanced |-> FALSE]

\* ------------------------------------------------------ _extract_full_text
FullTextLimit == 50000

\* the docs are the dicts of PageDocs; a chunk of whitespace only is falsy
\* after strip() at line 174 and appended, stripped, by line 177
ExtractFullText(docs) ==
    LET parts == SelectSeq(docs, LAMBDA doc : doc.page_content # <<>>)
        text_parts == [i \in 1..Len(parts) |-> Strip(parts[i].page_content)]
    IN  Truncate(Join(text_parts, <<"\n", "\n">>), FullTextLimit,
                 Chars("\n\n[Content truncated for processing...]"))

\* ------------------------------------------------------ create_vector_store
\* the list stored under self.vector_store[document_id] (the 'content' of each
\* entry; the metadata is never read)
CreateVectorStore(docs) ==
    IF docs = <<>> THEN <<>>
    ELSE LET kept == SelectSeq(docs, LAMBDA doc : Strip(doc.page_content) # <<>>)
             processed_docs == [i \in 1..Len(kept) |-> [content |-> Strip(kept[i].page_content)]]
         IN  IF processed_docs = <<>>
             THEN <<[content |-> Chars("No valid content found in uploaded documents")]>>
             ELSE processed_docs

\* --------------------------------------------------- _extract_basic_terms
\* term_patterns, in the order of the dict
TermPatterns ==
    <<[name |-> Chars("Contract Duration"), keywords |-> <<Chars("term"), Chars("duration"), Chars("period")>>],
      [name |-> Chars("Payment Terms"),
       keywords |-> <<Chars("payment"), Chars("fee"), Chars("compensation"), Chars("salary")>>],
      [name |-> Chars("Termination"), keywords |-> <<Chars("termination"), Chars("end"), Chars("expire")>>],
      [name |-> Chars("Confidentiality"),
       keywords |-> <<Chars("confidential"), Chars("non-disclosure"), Chars("proprietary")>>],
      [name |-> Chars("Liability"), keywords |-> <<Chars("liability"), Chars("responsible"), Chars("damages")>>],
      [name |-> Chars("Governing Law"), keywords |-> <<Chars("governing"), Chars("jurisdiction"), Chars("court")>>]>>

ExtractBasicTerms(text_lower) ==
    IF text_lower = <<>> THEN <<Chars("No text available for term extraction")>>
    ELSE LET hit == SelectSeq(TermPatterns, LAMBDA p : AnyIn(p.keywords, text_lower))
             terms == [i \in 1..Len(hit) |->
                          hit[i].name \o Chars(": Found relevant clauses in document")]
         IN  IF terms = <<>>
             THEN <<Chars("Document Type: Standard legal document format detected")>>
             ELSE terms

\* ----------------------------------------------------------- _analyze_basic
EmploymentWords == <<Chars("employment"), Chars("employee"), Chars("job"), Chars("salary")>>

ServiceWords == <<Chars("service"), Chars("services"), Chars("consultant")>>

NdaWords == <<Chars("confidential"), Chars("non-disclosure"), Chars("nda")>>

LeaseWords == <<Chars("lease"), Chars("rent"), Chars("premises")>>

PurchaseWords == <<Chars("purchase"), Chars("sale"), Chars("buy"), Chars("sell")>>

\* lines 226-236: the first branch of the if/elif chain with a word in the text
DocType(text_lower) ==
    IF AnyIn(EmploymentWords, text_lower) THEN Chars("Employment Contract")
    ELSE IF AnyIn(ServiceWords, text_lower) THEN Chars("Service Agreement")
    ELSE IF AnyIn(NdaWords, text_lower) THEN Chars("Non-Disclosure Agreement")
    ELSE IF AnyIn(LeaseWords, text_lower) THEN Chars("Lease Agreement")
    ELSE IF AnyIn(PurchaseWords, text_lower) THEN Chars("Purchase Agreement")
    ELSE Chars("Legal Document")

\* lines 239-248
BasicRisks(text_lower) ==
    (IF AnyIn(<<Chars("termination"), Chars("terminate")>>, text_lower)
     THEN <<Chars("Termination clauses detected")>> ELSE <<>>)
    \o (IF Contains(text_lower, Chars("liability"))
        THEN <<Chars("Liability terms found")>> ELSE <<>>)
    \o (IF AnyIn(<<Chars("payment"), Chars("fee")>>, text_lower)
        THEN <<Chars("Payment obligations identified")>> ELSE <<>>)
    \o (IF AnyIn(<<Chars("penalty"), Chars("fine")>>, text_lower)
        THEN <<Chars("Penalty clauses found")>> ELSE <<>>)

AnalyzeBasic(text0, document_id) ==
    LET text == IF text0 = <<>> THEN Chars("No content") ELSE text0
        word_count == Len(SplitWords(text))
        text_lower == Lower(text)
        doc_type == DocType(text_lower)
        risks == BasicRisks(text_lower)
        key_terms == ExtractBasicTerms(text_lower)
    IN  [document_id |-> document_id,
         document_type |-> doc_type,
         summary |-> Chars("This appears to be a ") \o doc_type \o Chars(" containing ")
                     \o Str(word_count)
                     \o Chars(" words. The document includes standard legal provisions and clauses typical for this type of agreement."),
         risks_analysis |->
             IF risks # <<>>
             THEN Chars("Detected ") \o Str(Len(risks))
                  \o Chars(" potential areas requiring attention: ")
                  \o Join(risks, <<";", " ">>)
             ELSE Chars("No obvious risk indicators found in basic analysis."),
         key_terms |->
             IF key_terms # <<>>
             THEN Join([i \in 1..Len(key_terms) |-> <<"-", " ">> \o key_terms[i]], <<"\n">>)
             ELSE Chars("- No key terms extracted"),
         document_length |-> Len(text),
         chunk_count |-> Len(SplitOn(text, "\n")),
         word_count |-> word_count,
         ai_enhanced |-> FALSE]

\* ------------------------------------------- the external generative model
\* What one call of self.model.generate_content does: it raises (text is then
\* the message of the exception), it returns a response without text, or it
\* returns the text.
Raises(msg) == [kind |-> "raises", text |-> msg]

EmptyReply == [kind |-> "empty", text |-> <<>>]

Reply(text) == [kind |-> "text", text |-> text]

\* the replies of the model: a failed call, an empty response, a structured
\* answer with markdown in it, a plain sentence, and a lone asterisk
Replies ==
    {Raises(Chars("429 quota")),
     EmptyReply,
     Reply(Chars("DOCUMENT TYPE: **Staff Contract**\nKEY RISKS: penalty for late payment.\n\n\n\nIMPORTANT TERMS:  Salary: paid monthly")),
     Reply(Chars("It is a lease.")),
     Reply(Chars(" * "))}

\* ------------------------------------ _extract_doc_type_from_ai_response
RECURSIVE DocTypeOfLines(_)
DocTypeOfLines(lines) ==
    IF lines = <<>> THEN Chars("Legal Document")
    ELSE IF /\ \/ Contains(Lower(lines[1]), Chars("document type"))
               \/ Contains(Lower(lines[1]), Chars("type:"))
            /\ Contains(lines[1], <<":">>)
         THEN Strip(RemoveAsterisks(Strip(SplitOnce(lines[1], ":")[2])))
         ELSE DocTypeOfLines(Tail(lines))

ExtractDocTypeFromAiResponse(ai_text) == DocTypeOfLines(SplitOn(ai_text, "\n"))

\* ------------------ _extract_risks_from_ai_response, _extract_terms_from_...
\* the position of the first marker of the list that occurs in the text
RECURSIVE FirstMarker(_, _)
FirstMarker(text_lower, markers) ==
    IF markers = <<>> THEN -1
    ELSE IF Find(text_lower, markers[1], 0) # -1 THEN Find(text_lower, markers[1], 0)
    ELSE FirstMarker(text_lower, Tail(markers))

MarkerGap == 50

\* the lowest position, from start_pos + 50 on, of any end marker; else len
EndPos(text_lower, markers, start_pos) ==
    LET found == {Find(text_lower, markers[i], start_pos + MarkerGap) :
                      i \in 1..Len(markers)} \ {-1}
    IN  IF found = {} THEN Len(text_lower) ELSE Min(found)

ExtractSection(ai_text, start_markers, end_markers, default, limit) ==
    LET text_lower == Lower(ai_text)
        start_pos == FirstMarker(text_lower, start_markers)
    IN  IF start_pos = -1 THEN default
        ELSE Truncate(CleanAiResponse(Strip(Slice(ai_text, start_pos,
                          EndPos(text_lower, end_markers, start_pos)))),
                      limit, <<".", ".", ".">>)

RisksLimit == 500

TermsLimit == 800

ExtractRisksFromAiResponse(ai_text) ==
    ExtractSection(ai_text,
        <<Chars("key risks"), Chars("risks:"), Chars("risk assessment"), Chars("concerns")>>,
        <<Chars("important terms"), Chars("key terms"), Chars("critical dates"), Chars("financial")>>,
        Chars("Risk analysis completed by AI"), RisksLimit)

ExtractTermsFromAiResponse(ai_text) ==
    ExtractSection(ai_text,
        <<Chars("important terms"), Chars("key terms"), Chars("terms:")>>,
        <<Chars("critical dates"), Chars("financial"), Chars("conclusion")>>,
        Chars("Key terms identified by AI"), TermsLimit)

\* --------------------------------------------------------- _analyze_with_ai
AiMinChars == 50

SummaryLimit == 1000

\* the time of the call, which no operation reads
Now == Chars("<now>")

\* the dict _analyze_with_ai returns when the call ends with `reply`
AnalyzeWithAi(available, text, reply) ==
    IF ~available THEN [ai_error |-> Chars("AI not available")]
    ELSE IF text = <<>> \/ Len(Strip(text)) < AiMinChars
    THEN [ai_error |-> Chars("Insufficient text for AI analysis")]
    ELSE IF reply.kind = "raises" THEN [ai_error |-> reply.text]
    ELSE IF reply.kind = "empty" \/ reply.text = <<>>
    THEN [ai_error |-> Chars("Empty AI response")]
    ELSE LET ai_text == CleanAiResponse(Strip(reply.text))
         IN  [ai_enhanced |-> TRUE,
              summary |-> Truncate(ai_text, SummaryLimit, <<".", ".", ".">>),
              ai_analysis_full |-> ai_text,
              ai_processed_at |-> Now,
              document_type |-> ExtractDocTypeFromAiResponse(ai_text),
              risks_analysis |-> ExtractRisksFromAiResponse(ai_text),
              key_terms |-> ExtractTermsFromAiResponse(ai_text)]

\* ------------------------------------------------------------ _answer_basic
StopWords ==
    {Chars("what"), Chars("when"), Chars("where"), Chars("how"), Chars("does"), Chars("this"), Chars("that"), Chars("they"),
     Chars("with"), Chars("the"), Chars("and"), Chars("or")}

MinWordLen == 3

MaxSentences == 3

SentenceLimit == 200

\* f"{i}. {display_sentence}\n\n" for the sentences from the i-th on
RECURSIVE Numbered(_, _)
Numbered(sentences, i) ==
    IF i > Len(sentences) THEN <<>>
    ELSE Str(i) \o <<".", " ">>
         \o Truncate(sentences[i], SentenceLimit, <<".", ".", ".">>)
         \o <<"\n", "\n">> \o Numbered(sentences, i + 1)

NotFoundAnswer(question) ==
    Chars("I couldn't find specific information about '") \o question
    \o Chars("' in the document. Try rephrasing your question or using different keywords. The document appears to contain information about legal terms, contracts, agreements, or similar topics.")

\* an _answer_basic that lists every matching sentence
AnswerBasicUncapped(text, question) ==
    IF text = <<>> \/ question = <<>> THEN Chars("Invalid input for question processing.")
    ELSE LET question_words == SelectSeq(SplitWords(Lower(question)),
                                   LAMBDA w : Len(w) > MinWordLen /\ w \notin StopWords)
             found_words == SelectSeq(question_words, LAMBDA w : Contains(Lower(text), w))
             pieces == SplitOn(text, ".")
             sentences == SelectSeq([i \in 1..Len(pieces) |-> Strip(pieces[i])],
                                    LAMBDA s : s # <<>>)
             matching == SelectSeq(sentences, LAMBDA s : AnyIn(found_words, Lower(s)))
         IN  IF matching # <<>>
             THEN Chars("Based on the document content:\n\n")
                  \o Numbered(matching, 1)
                  \o Chars("Note: This is a basic keyword search. For more detailed AI-powered answers, ensure your Gemini API key is properly configured.")
             ELSE NotFoundAnswer(question)

AnswerBasic(text, question) ==
    IF text = <<>> \/ question = <<>> THEN Chars("Invalid input for question processing.")
    ELSE LET text_lower == Lower(text)
             question_words == SelectSeq(SplitWords(Lower(question)),
                                   LAMBDA w : Len(w) > MinWordLen /\ w \notin StopWords)
             found_words == SelectSeq(question_words, LAMBDA w : Contains(text_lower, w))
             pieces == SplitOn(text, ".")
             sentences == SelectSeq([i \in 1..Len(pieces) |-> Strip(pieces[i])],
                                    LAMBDA s : s # <<>>)
             matching == SelectSeq(sentences, LAMBDA s : AnyIn(found_words, Lower(s)))
             relevant_sentences ==
                 SubSeq(matching, 1, IF Len(matching) > MaxSentences
                                     THEN MaxSentences ELSE Len(matching))
         IN  IF found_words # <<>> /\ relevant_sentences # <<>>
             THEN Chars("Based on the document content:\n\n")
                  \o Numbered(relevant_sentences, 1)
                  \o Chars("Note: This is a basic keyword search. For more detailed AI-powered answers, ensure your Gemini API key is properly configured.")
             ELSE NotFoundAnswer(question)

\* ---------------------------------------------------------- _answer_with_ai
\* an _answer_with_ai that answers with an apology where the model raised
AnswerWithAiSwallows(text, question, reply) ==
    [raised |-> FALSE, answer |-> Chars("Sorry, the AI service is not available right now.")]

\* raised: the exception of generate_content is raised again at line 571
AnswerWithAi(text, question, reply) ==
    IF reply.kind = "raises" THEN [raised |-> TRUE, answer |-> <<>>]
    ELSE IF reply.kind = "text" /\ reply.text # <<>>
    THEN [raised |-> FALSE, answer |-> CleanAiResponse(Strip(reply.text))]
    ELSE [raised |-> FALSE,
          answer |-> Chars("I received an empty response from the AI. Please try rephrasing your question.")]

\* ---------------------------------------------------------- answer_question
AnswerMinChars == 20

\* document_id = None or '', question = None or ''
NoQuestion == <<>>

\* a check of the arguments that lets every document_id through
MissingNever(document_id) == FALSE

Missing(document_id) == document_id = NoDoc

Questions == {NoQuestion, Chars("When is payment due?"), Chars("termination liability")}

\* the texts answer_question can find for a document of the model: the
\* full_text analyze_document stored, or the contents of its vector_store
\* entry joined by line breaks
FullTexts ==
    UNION {{ExtractFullText(PageDocs(p[2])),
            Join([i \in 1..Len(CreateVectorStore(PageDocs(p[2]))) |->
                      CreateVectorStore(PageDocs(p[2]))[i].content], <<"\n">>)} :
           p \in UploadPairs}

\* lines 511-532: the answer for the text found, and whether the model was
\* called for it
AnswerFromText(full_text, available, question, reply) ==
    IF full_text = <<>> \/ Len(Strip(full_text)) < AnswerMinChars
    THEN [answer |-> Chars("Document text is not available or too short for analysis. Please try re-uploading the document."),
          called |-> FALSE]
    ELSE IF available /\ ~AnswerWithAi(full_text, question, reply).raised
    THEN [answer |-> AnswerWithAi(full_text, question, reply).answer, called |-> TRUE]
    ELSE [answer |-> AnswerBasic(full_text, question), called |-> available]

AnswerTable ==
    [x \in FullTexts \X BOOLEAN \X Questions \X Replies |->
        AnswerFromText(x[1], x[2], x[3], x[4])] @@ <<>>

\* lines 501-509: the text of a document that is in one of the dicts
LocatedText(rdocs, rvs, document_id) ==
    IF document_id \in Keys(rdocs) THEN Entry(rdocs, document_id).full_text
    ELSE LET docs == Entry(rvs, document_id).docs
         IN  Join([i \in 1..Len(docs) |-> docs[i].content], <<"\n">>)

\* The answer, and what the call did on its way: whether it looked the
\* document up in the two dicts, and whether it called the external model.
AnswerQuestion(rdocs, rvs, available, document_id, question, reply) ==
    IF Missing(document_id) \/ question = NoQuestion
    THEN [answer |-> Chars("Error: Document ID and question are required."),
          lookup |-> FALSE, called |-> FALSE]
    ELSE IF document_id \notin Keys(rvs) /\ document_id \notin Keys(rdocs)
    THEN [answer |-> Chars("Document not found. Please upload and analyze the document first."),
          lookup |-> TRUE, called |-> FALSE]
    ELSE LET full_text == LocatedText(rdocs, rvs, document_id)
             r == AnswerTable[<<full_text, available, question, reply>>]
         IN  [answer |-> r.answer, lookup |-> TRUE, called |-> r.called]

\* -------------------------------------------------------------- parse_risks
Risk(title, description, level) ==
    [title |-> title, description |-> description, level |-> level]

\* risk_indicators, in the order of the dict
RiskIndicators ==
    <<[keyword |-> Chars("termination"),
       risk |-> Risk(Chars("Termination Clauses"),
                     Chars("Document contains termination-related provisions that should be reviewed"),
                     Chars("Medium"))],
      [keyword |-> Chars("liability"),
       risk |-> Risk(Chars("Liability Terms"),
                     Chars("Liability provisions detected - review limitations and responsibilities"),
                     Chars("Medium"))],
      [keyword |-> Chars("payment"),
       risk |-> Risk(Chars("Payment Obligations"),
                     Chars("Payment terms and financial obligations identified"), Chars("Low"))],
      [keyword |-> Chars("penalty"),
       risk |-> Risk(Chars("Penalty Clauses"),
                     Chars("Penalty or fine provisions found - review carefully"), Chars("High"))],
      [keyword |-> Chars("confidential"),
       risk |-> Risk(Chars("Confidentiality Requirements"),
                     Chars("Confidentiality or non-disclosure terms present"), Chars("Medium"))],
      [keyword |-> Chars("indemnification"),
       risk |-> Risk(Chars("Indemnification Clauses"),
                     Chars("Indemnification provisions require legal review"), Chars("High"))]>>

\* a parse that adds no default entry
ParseRisksNoDefault(risks_text) ==
    LET hit == SelectSeq(RiskIndicators, LAMBDA r : Contains(Lower(risks_text), r.keyword))
    IN  [i \in 1..Len(hit) |-> hit[i].risk]

ParseRisks(risks_text) ==
    IF risks_text = <<>>
    THEN <<Risk(Chars("Analysis Complete"),
                Chars("Document processed successfully. Risk analysis may be limited."),
                Chars("Low"))>>
    ELSE LET hit == SelectSeq(RiskIndicators,
                              LAMBDA r : Contains(Lower(risks_text), r.keyword))
             risks == [i \in 1..Len(hit) |-> hit[i].risk]
         IN  IF risks = <<>>
             THEN <<Risk(Chars("General Legal Review"),
                         Chars("Document processed successfully. Professional legal review recommended for important agreements."),
                         Chars("Low"))>>
             ELSE risks

\* --------------------------------------------- RAGPipeline.analyze_document
\* a merge in which the heuristic values win
MergeHeuristicWins(analysis, ai_analysis) == Update(ai_analysis, analysis)

\* line 134: analysis.update(ai_analysis)
Merge(analysis, ai_analysis) == Update(analysis, ai_analysis)

\* What the call computes from its arguments: vector_docs, full_text, the
\* returned analysis, how far it got ("start": not past line 93, "vectors":
\* not past line 106, "end"), and whether it reached generate_content.
\* _analyze_with_ai catches what the model raises, so the except of line 136
\* is never entered.
Analyzed(available, docs, document_id, reply) ==
    IF docs = <<>>
    THEN [analysis |-> CreateErrorAnalysis(document_id, Chars("No documents provided")),
          vector_docs |-> <<>>, full_text |-> <<>>, reached |-> "start", called |-> FALSE]
    ELSE LET vector_docs == CreateVectorStore(docs)
             full_text == ExtractFullText(docs)
             attempt == available /\ Len(Strip(full_text)) > AiMinChars
         IN  IF Strip(full_text) = <<>>
             THEN [analysis |-> CreateErrorAnalysis(document_id, Chars("No text content found")),
                   vector_docs |-> vector_docs, full_text |-> full_text,
                   reached |-> "vectors", called |-> FALSE]
             ELSE [analysis |->
                       IF attempt
                       THEN Merge(AnalyzeBasic(full_text, document_id),
                                  AnalyzeWithAi(available, full_text, reply))
                       ELSE AnalyzeBasic(full_text, document_id),
                   vector_docs |-> vector_docs, full_text |-> full_text,
                   reached |-> "end", called |-> attempt]

AnalyzedTable ==
    [x \in BOOLEAN \X UploadPairs \X Replies |->
        Analyzed(x[1], PageDocs(x[2][2]), x[2][1], x[3])] @@ <<>>

\* lines 97-144 for what the call computed (a): the returned analysis, the
\* two dicts of the pipeline after the call, and whether the call reached
\* generate_content
Returning(rdocs, rvs, chunks, document_id, a) ==
    [analysis |-> a.analysis,
     vector_store |->
         IF a.reached = "start" THEN rvs
         ELSE DictSet(rvs, document_id, [id |-> document_id, docs |-> a.vector_docs]),
     documents |->
         IF a.reached # "end" THEN rdocs
         ELSE DictSet(rdocs, document_id,
                      [id |-> document_id, full_text |-> a.full_text,
                       doc_count |-> Len(chunks),
                       vector_count |-> Len(a.vector_docs),
                       status |-> "analyzed"]),
     called |-> a.called]

RagAnalyzeDocument(rdocs, rvs, available, chunks, document_id, reply) ==
    Returning(rdocs, rvs, chunks, document_id,
              AnalyzedTable[<<available, <<document_id, chunks>>, reply>>])

\* ----------------------------------------- the pipeline used on its own
\* A RAGPipeline object and calls of its two public methods with any
\* arguments (app.py is one caller; it checks the arguments first).
\* the replies to choose from for a call: the model answers only if called
RepliesWhen(called) == IF called THEN Replies ELSE {EmptyReply}

PipeCall(method, document_id, question) ==
    [route |-> method, document_id |-> document_id, question |-> question]

\* the call returns r
AnalyzeReturns(document_id, chunks, reply, r) ==
    /\ rag_documents' = r.documents
    /\ rag_vector_store' = r.vector_store
    /\ response' = [call |-> PipeCall("analyze_document", document_id, NoQuestion),
                    docs |-> chunks, reply |-> reply, returned |-> r.analysis,
                    lookup |-> FALSE, called |-> r.called]

PipeAnalyze(document_id, chunks, reply) ==
    /\ rag_pipeline
    /\ AnalyzeReturns(document_id, chunks, reply,
                      RagAnalyzeDocument(rag_documents, rag_vector_store, ai_available,
                                         chunks, document_id, reply))
    /\ UNCHANGED <<index, documents, diskIndex, diskDocs, ghosts, threads,
                   app_documents, rag_pipeline, ai_available, issued, inflight>>

AnswerReturns(document_id, question, reply, r) ==
    response' = [call |-> PipeCall("answer_question", document_id, question),
                 docs |-> <<>>, reply |-> reply, returned |-> r.answer,
                 lookup |-> r.lookup, called |-> r.called]

PipeAnswer(document_id, question, reply) ==
    /\ rag_pipeline
    /\ AnswerReturns(document_id, question, reply,
                     AnswerQuestion(rag_documents, rag_vector_store, ai_available,
                                    document_id, question, reply))
    /\ UNCHANGED <<index, documents, diskIndex, diskDocs, ghosts, threads,
                   app_documents, rag_pipeline, rag_documents, rag_vector_store,
                   ai_available, issued, inflight>>

\* what delete_document of app.py does to the pipeline (lines 584-588)
PipeForget(document_id) ==
    /\ rag_pipeline
    /\ document_id \in Keys(rag_vector_store) \cup Keys(rag_documents)
    /\ rag_vector_store' = IF document_id \in Keys(rag_vector_store)
                           THEN DictDel(rag_vector_store, document_id)
                           ELSE rag_vector_store
    /\ rag_documents' = IF document_id \in Keys(rag_documents)
                        THEN DictDel(rag_documents, document_id)
                        ELSE rag_documents
    /\ response' = [call |-> PipeCall("del", document_id, NoQuestion),
                    docs |-> <<>>, reply |-> EmptyReply, returned |-> <<>>,
                    lookup |-> FALSE, called |-> FALSE]
    /\ UNCHANGED <<index, documents, diskIndex, diskDocs, ghosts, threads,
                   app_documents, rag_pipeline, ai_available, issued, inflight>>

\* the VectorStore of part 1, as constructed over an empty directory
StoreInit ==
    /\ index = None
    /\ documents = <<>>
    /\ diskIndex = Absent
    /\ diskDocs = Absent
    /\ result = "returned"
    /\ faults = 0
    /\ deletedSince = {}
    /\ allSaved = TRUE
    /\ maxEndEver = 0
    /\ maxEndKept = 0
    /\ pc = [t \in Threads |-> "idle"]
    /\ loc = [t \in Threads |-> [chunks |-> <<>>, start_idx |-> 0]]

InitPipe == StoreInit /\ \E ai \in BOOLEAN : WebInit(TRUE, ai)

\* whether analyze_document / answer_question get as far as the model
AnalyzeCalls(chunks) ==
    ai_available /\ Len(Strip(ExtractFullText(PageDocs(chunks)))) > AiMinChars

AnswerCalls(document_id, question) ==
    AnswerQuestion(rag_documents, rag_vector_store, ai_available,
                   document_id, question, EmptyReply).called

NextPipe ==
    \/ \E d \in DocIds : \E chunks \in Uploadable(d) :
           \E reply \in RepliesWhen(AnalyzeCalls(chunks)) : PipeAnalyze(d, chunks, reply)
    \/ \E d \in DocIds \cup {NoDoc}, q \in Questions :
           \E reply \in RepliesWhen(AnswerCalls(d, q)) : PipeAnswer(d, q, reply)
    \/ \E d \in DocIds : PipeForget(d)

SpecPipe == InitPipe /\ [][NextPipe]_vars

\* ==========================================================================
\* app.py: the routes /api/upload, /api/analyze, /api/question and
\* /api/document, over the module-level dict `documents`, the VectorStore of
\* part 1 and the RAGPipeline.  The uploaded file and the times in an entry
\* are left out: no route modelled here reads them.  A response is kept with
\* its status, its JSON body, and what the request did on its way.
\* ==========================================================================
NoAnalysis == [none |-> TRUE]

\* line 267-273: documents[document_id] = {...}
Uploaded(document_id, chunks) ==
    [id |-> document_id, chunks |-> chunks, status |-> "uploaded", analysis |-> NoAnalysis]

\* the name of the uploaded file
Filename(document_id) == <<document_id>> \o Chars(".txt")

\* processed_data['text']: the text the chunks were cut from
DocText(chunks) == Join([i \in 1..Len(chunks) |-> Content(chunks[i])], <<" ">>)

\* str.replace(old, ''): every occurrence of old, from the left, is taken out
RECURSIVE RemoveAll(_, _)
RemoveAll(s, old) ==
    LET p == Find(s, old, 0)
    IN  IF p = -1 THEN s
        ELSE Slice(s, 0, p) \o RemoveAll(SliceFrom(s, p + Len(old)), old)

\* lines 326-334: a line with a colon gives a term and its definition
ParseKeyTerms(key_terms_text) ==
    LET lines == SelectSeq(SplitOn(key_terms_text, "\n"),
                           LAMBDA line : Strip(line) # <<>> /\ Contains(line, <<":">>))
        Parts(line) == SplitOnce(RemoveAll(Strip(line), <<"-", " ">>), ":")
        good == SelectSeq(lines, LAMBDA line : Len(Parts(line)) = 2)
    IN  [i \in 1..Len(good) |->
            [term |-> Strip(Parts(good[i])[1]), definition |-> Strip(Parts(good[i])[2])]]

\* a list of key terms with no placeholder for the empty case
KeyTermsNoPlaceholder(key_terms_text) == ParseKeyTerms(key_terms_text)

\* lines 336-342
KeyTermsOrPlaceholder(key_terms_text) ==
    IF ParseKeyTerms(key_terms_text) = <<>>
    THEN <<[term |-> Chars("Document Processing"),
            definition |-> Chars("Document successfully analyzed and processed with AI")]>>
    ELSE ParseKeyTerms(key_terms_text)

\* the response flag, always set
AiPoweredAlways(rag_analysis) == TRUE

\* lines 362-368: rag_analysis.get('ai_enhanced')
AiPowered(rag_analysis) == Get(rag_analysis, "ai_enhanced", FALSE)

\* lines 311-368: the analysis the route makes of the pipeline's
FormatAnalysis(rag_analysis, document_id) ==
    LET analysis ==
            [document_type |-> Get(rag_analysis, "document_type", Chars("Legal Document")),
             summary |-> Get(rag_analysis, "summary",
                             Chars("Document \"") \o Filename(document_id)
                             \o Chars("\" processed successfully.")),
             parties |-> <<>>,
             dates |-> <<>>,
             financial_terms |-> <<>>,
             key_terms |-> KeyTermsOrPlaceholder(Get(rag_analysis, "key_terms", <<>>)),
             rights_obligations |-> <<>>,
             risks |-> ParseRisks(Get(rag_analysis, "risks_analysis", <<>>)),
             recommendations |-> <<>>]
    IN  IF AiPowered(rag_analysis)
        THEN Update(analysis, [parties |-> Get(rag_analysis, "parties", <<>>),
                               important_dates |-> Get(rag_analysis, "important_dates", <<>>),
                               financial_terms |-> Get(rag_analysis, "financial_terms", <<>>),
                               ai_powered |-> TRUE])
        ELSE Update(analysis, [ai_powered |-> FALSE])

\* lines 381-401: the analysis made without the pipeline
FallbackAnalysis(chunks, document_id) ==
    [document_type |-> Chars("Legal Document"),
     summary |-> Chars("Document \"") \o Filename(document_id)
                 \o Chars("\" uploaded successfully with ")
                 \o Str(Len(SplitWords(DocText(chunks))))
                 \o Chars(" words. Basic analysis completed."),
     parties |-> <<>>,
     dates |-> <<>>,
     financial_terms |-> <<>>,
     key_terms |-> <<[term |-> Chars("Document Upload"),
                      definition |-> Chars("File processed successfully")]>>,
     rights_obligations |-> <<>>,
     risks |-> <<Risk(Chars("Basic Processing"),
                      Chars("Document processed with basic analysis. Configure Gemini API key for enhanced analysis."),
                      Chars("Low"))>>,
     recommendations |-> <<Chars("Configure Gemini API key for detailed AI analysis")>>,
     ai_powered |-> FALSE]

NoTrace == [reply |-> EmptyReply, called |-> FALSE, lookup |-> FALSE, rag |-> NoAnalysis]

Respond(route, document_id, status, body, trace) ==
    [route |-> route, document_id |-> document_id, status |-> status,
     body |-> body, trace |-> trace]

Failure(error) == [success |-> FALSE, error |-> error]

\* documents[document_id][field] = value
SetField(docs, document_id, field, value) ==
    DictSet(docs, document_id, [Entry(docs, document_id) EXCEPT ![field] = value])

\* ------------------------------------------------------------ /api/upload
\* A request without a usable file is turned away (lines 231-239).
UploadRejected ==
    /\ response' = Respond("upload", NoDoc, 400, Failure(Chars("No file provided")), NoTrace)
    /\ UNCHANGED <<index, documents, diskIndex, diskDocs, ghosts, threads,
                   app_documents, rag_pipeline, rag_documents, rag_vector_store,
                   ai_available, issued, inflight>>

\* The document gets an id no upload had before (uuid4).  add_document raises
\* at failAt (it always does for an empty chunk list, whose embeddings have no
\* second dimension) and the route goes on, or it stores the chunks.
UploadDocument(d, chunks, failAt) ==
    /\ d \notin issued
    /\ Ntotal(index) + Len(chunks) <= MaxTotal
    /\ chunks = <<>> => failAt \in {"create", "normalize"}
    /\ (chunks # <<>> /\ failAt # "none") => faults < MaxFaults
    /\ IF failAt # "none"
       THEN /\ index' = AddFailure(index, NormalizeL2(Encode(chunks)), failAt)
            /\ UNCHANGED <<documents, diskIndex, diskDocs>>
       ELSE LET new == AddCommit(index, documents, d, chunks)
                disk == SaveStore(new.index, new.documents, diskIndex, diskDocs, "ok")
            IN  /\ index' = new.index
                /\ documents' = new.documents
                /\ diskIndex' = disk.index
                /\ diskDocs' = disk.docs
    /\ faults' = IF chunks # <<>> /\ failAt # "none" THEN faults + 1 ELSE faults
    /\ app_documents' = DictSet(app_documents, d, Uploaded(d, chunks))
    /\ issued' = issued \cup {d}
    /\ response' = Respond("upload", d, 200,
                           [success |-> TRUE, document_id |-> d,
                            chunk_count |-> Len(chunks)], NoTrace)
    /\ UNCHANGED <<result, deletedSince, allSaved, maxEndEver, maxEndKept, threads,
                   rag_pipeline, rag_documents, rag_vector_store, ai_available, inflight>>

\* ----------------------------------------------------------- /api/analyze
\* The route from the call of the pipeline (line 308) to its response, for a
\* document that is still in `documents` when the analysis is stored.
FormattedTable ==
    [x \in BOOLEAN \X UploadPairs \X Replies |->
        FormatAnalysis(AnalyzedTable[x].analysis, x[2][1])] @@ <<>>

\* lines 308-368: the pipeline returned r and the route made `analysis` of it
RagOutcome(r, analysis, reply) ==
    [analysis |-> analysis,
     documents |-> r.documents, vector_store |-> r.vector_store,
     trace |-> [reply |-> reply, called |-> r.called, lookup |-> FALSE,
                rag |-> r.analysis]]

AnalyzeOutcome(chunks, document_id, reply) ==
    IF rag_pipeline
    THEN RagOutcome(RagAnalyzeDocument(rag_documents, rag_vector_store, ai_available,
                                       chunks, document_id, reply),
                    FormattedTable[<<ai_available, <<document_id, chunks>>, reply>>],
                    reply)
    ELSE [analysis |-> FallbackAnalysis(chunks, document_id),
          documents |-> rag_documents, vector_store |-> rag_vector_store,
          trace |-> NoTrace]

\* lines 370-374: the analysis is stored and returned
AnalyzeStored(d, out) ==
    /\ rag_documents' = out.documents
    /\ rag_vector_store' = out.vector_store
    /\ app_documents' =
           DictSet(app_documents, d,
                   [Entry(app_documents, d) EXCEPT
                        !.analysis = out.analysis, !.status = "completed"])
    /\ response' = Respond("analyze", d, 200,
                           [success |-> TRUE, data |-> out.analysis], out.trace)

\* the whole request, served with no other request in between
AnalyzeDocument(d, reply) ==
    /\ IF d \notin Keys(app_documents)
       THEN /\ response' = Respond("analyze", d, 404, Failure(Chars("Document not found")), NoTrace)
            /\ UNCHANGED <<app_documents, rag_documents, rag_vector_store>>
       ELSE AnalyzeStored(d, AnalyzeOutcome(Entry(app_documents, d).chunks, d, reply))
    /\ UNCHANGED <<index, documents, diskIndex, diskDocs, ghosts, threads,
                   rag_pipeline, ai_available, issued, inflight>>

\* ---------------------------------------------------------- /api/question
\* lines 504-518: the answer of the pipeline in the response
Answered(d, question, reply, r) ==
    Respond("question", d, 200,
            [success |-> TRUE, answer |-> r.answer, question |-> question,
             ai_powered |-> ai_available],
            [reply |-> reply, called |-> r.called, lookup |-> r.lookup,
             rag |-> NoAnalysis])

AskQuestion(d, question, reply) ==
    /\ response' =
           IF Missing(d) \/ question = NoQuestion
           THEN Respond("question", d, 400,
                        Failure(Chars("Document ID and question required")), NoTrace)
           ELSE IF d \notin Keys(app_documents)
           THEN Respond("question", d, 404, Failure(Chars("Document not found")), NoTrace)
           ELSE IF rag_pipeline
           THEN Answered(d, question, reply,
                         AnswerQuestion(rag_documents, rag_vector_store, ai_available,
                                        d, question, reply))
           ELSE Respond("question", d, 200,
                        [success |-> TRUE,
                         answer |-> Chars("I'm unable to process questions right now. Please check that the document was properly analyzed."),
                         question |-> question, ai_powered |-> FALSE], NoTrace)
    /\ UNCHANGED <<index, documents, diskIndex, diskDocs, ghosts, threads,
                   app_documents, rag_pipeline, rag_documents, rag_vector_store,
                   ai_available, issued, inflight>>

\* ------------------------------------------------- DELETE /api/document
\* a delete that leaves the pipeline's dicts alone
ForgetNothing(docs, d) == docs

\* lines 584-588: if document_id in <dict>: del <dict>[document_id]
Forget(docs, d) == IF d \in Keys(docs) THEN DictDel(docs, d) ELSE docs

DeleteRoute(d) ==
    /\ IF d \notin Keys(app_documents)
       THEN /\ response' = Respond("delete", d, 404, Failure(Chars("Document not found")), NoTrace)
            /\ UNCHANGED <<documents, diskIndex, diskDocs, deletedSince, app_documents,
                           rag_documents, rag_vector_store>>
       ELSE /\ IF d \in Keys(documents)
               THEN LET docs == DictDel(documents, d)
                        disk == SaveStore(index, docs, diskIndex, diskDocs, "ok")
                    IN  /\ documents' = docs
                        /\ diskIndex' = disk.index
                        /\ diskDocs' = disk.docs
               ELSE UNCHANGED <<documents, diskIndex, diskDocs>>
            /\ rag_vector_store' = IF rag_pipeline THEN Forget(rag_vector_store, d)
                                   ELSE rag_vector_store
            /\ rag_documents' = IF rag_pipeline THEN Forget(rag_documents, d)
                                ELSE rag_documents
            /\ app_documents' = DictDel(app_documents, d)
            /\ deletedSince' = deletedSince \cup {d}
            /\ response' = Respond("delete", d, 200,
                                   [success |-> TRUE,
                                    message |-> Chars("Document deleted successfully")], NoTrace)
    /\ UNCHANGED <<index, result, faults, allSaved, maxEndEver, maxEndKept, threads,
                   rag_pipeline, ai_available, issued, inflight>>

\* ------------------------------------------- the server, one request at a time
\* rag_pipeline is None when the import of the pipeline failed; a pipeline
\* made without an API key has no model
InitApp == StoreInit /\ \E rag, ai \in BOOLEAN : (ai => rag) /\ WebInit(rag, ai)

UploadFailures == {"none", "create", "normalize", "add"}

AnalyzeRouteCalls(d) ==
    /\ d \in Keys(app_documents)
    /\ rag_pipeline
    /\ AnalyzeCalls(Entry(app_documents, d).chunks)

AskRouteCalls(d, question) ==
    /\ d \in Keys(app_documents)
    /\ rag_pipeline
    /\ AnswerCalls(d, question)

NextApp ==
    \/ UploadRejected
    \/ \E d \in DocIds : \E chunks \in Uploadable(d), failAt \in UploadFailures :
           UploadDocument(d, chunks, failAt)
    \/ \E d \in DocIds : \E reply \in RepliesWhen(AnalyzeRouteCalls(d)) :
           AnalyzeDocument(d, reply)
    \/ \E d \in DocIds \cup {NoDoc}, q \in Questions :
           \E reply \in RepliesWhen(AskRouteCalls(d, q)) : AskQuestion(d, q, reply)
    \/ \E d \in DocIds : DeleteRoute(d)

SpecApp == InitApp /\ [][NextApp]_vars

\* ==========================================================================
\* The server with threads (app.run of the Flask development server serves
\* each request in a thread of its own): an analyze request is served in
\* three steps, and other requests are served between them.
\* ==========================================================================
\* lines 292-297: the document is looked up and its chunks are read
AnalyzeBegin(d) ==
    /\ inflight.at = "idle"
    /\ d \in Keys(app_documents)
    /\ app_documents' = SetField(app_documents, d, "status", "analyzing")
    /\ inflight' = [doc |-> d, at |-> "rag", chunks |-> Entry(app_documents, d).chunks]
    /\ UNCHANGED <<index, documents, diskIndex, diskDocs, ghosts, threads,
                   rag_pipeline, rag_documents, rag_vector_store, ai_available,
                   response, issued>>

\* lines 306-368: rag_pipeline.analyze_document and the formatting of what it
\* returns; with no pipeline, nothing before line 381
AnalyzeHeld(out) ==
    /\ rag_documents' = out.documents
    /\ rag_vector_store' = out.vector_store
    /\ inflight' = [doc |-> inflight.doc, at |-> "store",
                    chunks |-> inflight.chunks, out |-> out]

AnalyzeRag(reply) ==
    /\ inflight.at = "rag"
    /\ AnalyzeHeld(AnalyzeOutcome(inflight.chunks, inflight.doc, reply))
    /\ UNCHANGED <<index, documents, diskIndex, diskDocs, ghosts, threads,
                   app_documents, rag_pipeline, ai_available, response, issued>>

\* str(KeyError(document_id))
KeyError(document_id) == <<"'", document_id, "'">>

\* an end of the request that stores the analysis and leaves the status alone
AnalyzeFinishKeepsStatus ==
    /\ inflight.at = "store"
    /\ IF inflight.doc \in Keys(app_documents)
       THEN /\ app_documents' =
                   SetField(app_documents, inflight.doc, "analysis", inflight.out.analysis)
            /\ response' = Respond("analyze", inflight.doc, 200,
                                   [success |-> TRUE, data |-> inflight.out.analysis],
                                   inflight.out.trace)
       ELSE /\ response' = Respond("analyze", inflight.doc, 500,
                                   Failure(KeyError(inflight.doc)), inflight.out.trace)
            /\ UNCHANGED app_documents
    /\ inflight' = NoRequest
    /\ UNCHANGED <<index, documents, diskIndex, diskDocs, ghosts, threads,
                   rag_pipeline, rag_documents, rag_vector_store, ai_available, issued>>

\* Lines 370-374.  When the document has left `documents`, line 370 raises
\* KeyError; the except of line 376 goes on to the fallback, whose line 403
\* raises KeyError again, and the except of line 408 answers 500.
AnalyzeFinish ==
    /\ inflight.at = "store"
    /\ IF inflight.doc \in Keys(app_documents)
       THEN /\ app_documents' =
                   DictSet(app_documents, inflight.doc,
                           [Entry(app_documents, inflight.doc) EXCEPT
                                !.analysis = inflight.out.analysis,
                                !.status = "completed"])
            /\ response' = Respond("analyze", inflight.doc, 200,
                                   [success |-> TRUE, data |-> inflight.out.analysis],
                                   inflight.out.trace)
       ELSE /\ response' = Respond("analyze", inflight.doc, 500,
                                   Failure(KeyError(inflight.doc)), inflight.out.trace)
            /\ UNCHANGED app_documents
    /\ inflight' = NoRequest
    /\ UNCHANGED <<index, documents, diskIndex, diskDocs, ghosts, threads,
                   rag_pipeline, rag_documents, rag_vector_store, ai_available, issued>>

AnalyzeInFlightCalls ==
    /\ inflight.at = "rag"
    /\ rag_pipeline
    /\ AnalyzeCalls(inflight.chunks)

NextAppConc ==
    \/ \E d \in DocIds : \E chunks \in Uploadable(d), failAt \in UploadFailures :
           UploadDocument(d, chunks, failAt)
    \/ \E d \in DocIds : AnalyzeBegin(d)
    \/ \E reply \in RepliesWhen(AnalyzeInFlightCalls) : AnalyzeRag(reply)
    \/ AnalyzeFinish
    \/ \E d \in DocIds : DeleteRoute(d)

SpecAppConc == InitApp /\ [][NextAppConc]_vars

\* C11: once the delete request for d has returned success, d is absent from
\* the app-level documents, from VectorStore.documents, and from the
\* pipeline's documents and vector_store, and stays absent, also when an
\* analyze request for d was in flight during the delete.
C11_DeletedStaysAbsent ==
    \A d \in deletedSince :
        /\ d \notin Keys(app_documents)
        /\ d \notin Keys(documents)
        /\ d \notin Keys(rag_documents)
        /\ d \notin Keys(rag_vector_store)

\* ==========================================================================
\* Claims about documents next to each other
\* ==========================================================================
\* what search returns: the (chunk_text, score) pairs
Returned(results) == [i \in 1..Len(results) |-> <<results[i].text, results[i].score>>]

\* the VectorStore of a run in which only document d, with the chunks it has
\* now, was ever added
Alone(d) == AddCommit(None, <<>>, d, Entry(documents, d).chunks)

\* C12 (search): after documents A and B were added and A was deleted, every
\* search restricted to B returns exactly what it returns in a run where
\* only B was ever added (same query, same top_k).
C12_SearchAsAlone ==
    (alive /\ "A" \in deletedSince /\ "B" \in Keys(documents)) =>
        \A q \in Texts, k \in TopKs :
            Returned(Search(index, documents, q, "B", k))
                = Returned(Search(Alone("B").index, Alone("B").documents, q, "B", k))

\* C12 (answer), checked next to it under SpecApp: every answer for B is
\* the answer of a pipeline that holds B's entries only.
C12_AnswerAsAlone ==
    ("A" \in deletedSince /\ "B" \in Keys(app_documents) /\ rag_pipeline) =>
        LET only(docs) == IF "B" \in Keys(docs) THEN <<Entry(docs, "B")>> ELSE <<>>
        IN  \A q \in Questions, reply \in Replies :
                AnswerQuestion(rag_documents, rag_vector_store, ai_available,
                               "B", q, reply).answer
                    = AnswerQuestion(only(rag_documents), only(rag_vector_store),
                                     ai_available, "B", q, reply).answer

\* ==========================================================================
\* Claims about the pipeline
\* ==========================================================================
InputError == Chars("Error: Document ID and question are required.")

\* C13: answer_question with an empty or missing document_id or question
\* reports the input error immediately: it looks no document up, calls no
\* external model, and leaves the pipeline's documents and vector_store as
\* they are.
C13_InputErrorImmediate ==
    [][(/\ response'.call.route = "answer_question"
        /\ (response'.call.document_id = NoDoc \/ response'.call.question = NoQuestion))
       => /\ response'.returned = InputError
          /\ ~response'.lookup
          /\ ~response'.called
          /\ rag_documents' = rag_documents
          /\ rag_vector_store' = rag_vector_store]_vars

\* such a call was made on a pipeline that has a model and holds documents
C13_Witness ==
    /\ "call" \in DOMAIN response
    /\ response.call.route = "answer_question"
    /\ (response.call.document_id = NoDoc \/ response.call.question = NoQuestion)
    /\ response.returned = InputError
    /\ ai_available
    /\ rag_documents # <<>>

DocumentNotFound == Chars("Document not found. Please upload and analyze the document first.")

\* a question response that reports the document as not found: the 404 of
\* the route, or the answer of answer_question that says so
ReportsNotFound(resp) ==
    /\ resp.route = "question"
    /\ \/ resp.status = 404
       \/ resp.status = 200 /\ resp.body.answer = DocumentNotFound

\* the document has at least one live chunk in the VectorStore
HasLiveChunk(d) == d \in Keys(documents) /\ Entry(documents, d).chunks # <<>>

\* C14: a question about a document is answered with a not-found condition
\* only if the document is neither in the pipeline's documents or
\* vector_store nor has a live chunk in the VectorStore; an uploaded document
\* that was not analyzed yet is not reported as not found.
C14_NotFoundOnlyIfNowhere ==
    ReportsNotFound(response) =>
        /\ response.document_id \notin Keys(rag_documents)
        /\ response.document_id \notin Keys(rag_vector_store)
        /\ ~HasLiveChunk(response.document_id)

\* the document is in one of the pipeline's dicts with a text of at least
\* AnswerMinChars characters
Usable(document_id) ==
    /\ document_id \in Keys(rag_documents) \cup Keys(rag_vector_store)
    /\ Len(Strip(LocatedText(rag_documents, rag_vector_store, document_id)))
           >= AnswerMinChars

\* C15: when every call of the external model raises, answer_question
\* returns a non-empty string (it returns, it does not raise), and for a
\* located document with usable text that string is exactly
\* _answer_basic(full_text, question).
C15_FailingModelAnswersBasic ==
    [][(/\ response'.call.route = "answer_question"
        /\ (response'.called => response'.reply.kind = "raises"))
       => /\ response'.returned # <<>>
          /\ (/\ response'.call.document_id # NoDoc
              /\ response'.call.question # NoQuestion
              /\ Usable(response'.call.document_id))
             => response'.returned
                    = AnswerBasic(LocatedText(rag_documents, rag_vector_store,
                                              response'.call.document_id),
                                  response'.call.question)]_vars

\* the model was called for a question about an analyzed document and
\* raised, and the answer quotes a sentence of the document
C15_Witness ==
    /\ "call" \in DOMAIN response
    /\ response.call.route = "answer_question"
    /\ response.called
    /\ response.reply.kind = "raises"
    /\ Usable(response.call.document_id)
    /\ Contains(response.returned, Chars("Based on the document content"))

\* the replies of a model that fails: it raises, or its response is empty
Failing(reply) == reply.kind \in {"raises", "empty"}

\* C16: a pipeline with no model behaves as one whose model fails on every
\* call: what analyze_document and answer_question returned from a pipeline
\* whose model failed is what the same call returns with ai_available false.
C16_NoModelAsFailingModel ==
    ("call" \in DOMAIN response /\ ai_available /\ Failing(response.reply)) =>
        /\ response.call.route = "analyze_document" =>
               response.returned
                   = RagAnalyzeDocument(rag_documents, rag_vector_store, FALSE,
                                        response.docs, response.call.document_id,
                                        response.reply).analysis
        /\ response.call.route = "answer_question" =>
               response.returned
                   = AnswerQuestion(rag_documents, rag_vector_store, FALSE,
                                    response.call.document_id, response.call.question,
                                    response.reply).answer

\* the answers alone
C16_AnswersOnly ==
    ("call" \in DOMAIN response /\ ai_available /\ Failing(response.reply)
        /\ response.call.route = "answer_question") =>
           response.returned
               = AnswerQuestion(rag_documents, rag_vector_store, FALSE,
                                response.call.document_id, response.call.question,
                                response.reply).answer

\* the last call was an analyze_document that got as far as the heuristic
\* analysis (there were docs and they had text)
AnalyzedText ==
    /\ "call" \in DOMAIN response
    /\ response.call.route = "analyze_document"
    /\ response.docs # <<>>
    /\ Strip(ExtractFullText(PageDocs(response.docs))) # <<>>

Heuristic == AnalyzeBasic(ExtractFullText(PageDocs(response.docs)), response.call.document_id)

\* the returned analysis has every field of the heuristic result, unchanged
KeepsHeuristic ==
    \A k \in DOMAIN Heuristic :
        k \in DOMAIN response.returned /\ response.returned[k] = Heuristic[k]

\* C18: when the AI pass of analyze_document fails in any way (the model
\* raises, its response is empty, or there is no model), the returned
\* analysis keeps every field of the heuristic result unchanged and carries
\* an ai_error annotation.
C18_FailureKeepsHeuristicWithError ==
    (AnalyzedText /\ (~ai_available \/ (response.called /\ Failing(response.reply)))) =>
        /\ KeepsHeuristic
        /\ "ai_error" \in DOMAIN response.returned

\* C18, for a model that was called and failed
C18_CalledModelFailed ==
    (AnalyzedText /\ response.called /\ Failing(response.reply)) =>
        /\ KeepsHeuristic
        /\ "ai_error" \in DOMAIN response.returned

\* C18, the heuristic fields alone
C18_HeuristicKept ==
    (AnalyzedText /\ (~ai_available \/ (response.called /\ Failing(response.reply)))) =>
        KeepsHeuristic

\* ==========================================================================
\* Claims about the routes
\* ==========================================================================
\* the last request was an analyze request that succeeded
AnalyzeSucceeded == response.route = "analyze" /\ response.status = 200

\* C17: every successful result of the analyze route (the pipeline with or
\* without a model, and the fallback without a pipeline), for any document
\* text including the empty one, has a non-empty key_terms list and a
\* non-empty risks list.
C17_KeyTermsAndRisksNonEmpty ==
    AnalyzeSucceeded =>
        /\ response.body.data.key_terms # <<>>
        /\ response.body.data.risks # <<>>

\* a document with no text was analyzed by the pipeline, and the key terms
\* are the placeholder
C17_Witness ==
    /\ AnalyzeSucceeded
    /\ rag_pipeline
    /\ Entry(app_documents, response.document_id).chunks = <<>>
    /\ Len(response.body.data.key_terms) = 1
    /\ response.body.data.key_terms[1].term = Chars("Document Processing")

\* the AI pass succeeded: the model was called and its response had a text
Succeeded(trace) ==
    trace.called /\ trace.reply.kind = "text" /\ trace.reply.text # <<>>

AiFields == {"document_type", "summary", "risks_analysis", "key_terms", "ai_enhanced"}

HeuristicOnly == {"document_id", "document_length", "chunk_count", "word_count"}

\* the text of the document of the last request
FullTextOf(document_id) ==
    ExtractFullText(PageDocs(Entry(app_documents, document_id).chunks))

\* C19: when the AI pass of analyze_document succeeds, each field it
\* produces replaces the heuristic value and every field it does not produce
\* keeps the heuristic value; ai_enhanced, and ai_powered in the response of
\* the route, is true if and only if the AI pass succeeded.
C19_MergeRule ==
    AnalyzeSucceeded =>
        LET rag == response.trace.rag
            text == FullTextOf(response.document_id)
        IN  /\ Succeeded(response.trace) =>
                /\ \A k \in AiFields :
                       rag[k] = AnalyzeWithAi(TRUE, text, response.trace.reply)[k]
                /\ \A k \in HeuristicOnly :
                       rag[k] = AnalyzeBasic(text, response.document_id)[k]
            /\ Get(rag, "ai_enhanced", FALSE) <=> Succeeded(response.trace)
            /\ response.body.data.ai_powered <=> Succeeded(response.trace)

\* the model answered with a structured text, and the document type of its
\* answer replaced the heuristic one
C19_Witness ==
    /\ AnalyzeSucceeded
    /\ Succeeded(response.trace)
    /\ response.body.data.ai_powered
    /\ response.trace.rag.document_type = Chars("Staff Contract")
    /\ AnalyzeBasic(FullTextOf(response.document_id), response.document_id).document_type
           = Chars("Employment Contract")
    /\ response.trace.rag.word_count = 6

\* C20: when the external model fails while a question is answered and the
\* answer returned was made by the heuristic path, the response is a
\* successful one whose flag ai_powered is false.
C20_HeuristicAnswerNotAiPowered ==
    (/\ response.route = "question"
     /\ response.status = 200
     /\ response.trace.called
     /\ response.trace.reply.kind = "raises"
     /\ response.body.answer
            = AnswerBasic(LocatedText(rag_documents, rag_vector_store, response.document_id),
                          response.body.question))
    => response.body.success /\ ~response.body.ai_powered

\* ==========================================================================
\* Part 3.  The heuristic functions of the pipeline applied to texts
\* ==========================================================================
\* The texts are made of words joined by single spaces.
KeywordPool ==
    {Chars("employee"), Chars("services"), Chars("nda"), Chars("lease"), Chars("rent"), Chars("sale"), Chars("clause")}

MaxWords == 3

WordSeqs(pool, n) == UNION {[1..k -> pool] : k \in 0..n}

BasicTexts == {Join(ws, <<" ">>) : ws \in WordSeqs(KeywordPool, MaxWords)}

\* the document of the examples
ExampleText ==
    Chars("This Employment Agreement sets the Employee salary at $5000 per month. Either party may terminate with 30 days notice.")

\* The texts that are asked about are made of sentences, each closed by a
\* full stop and a space.
SentencePool == {Chars("Employee salary is $5000"), Chars("Notice of 30 days"), Chars("The FEE is due")}

MaxSentencesInText == 4

SentenceTexts ==
    {Join([i \in 1..Len(ss) |-> ss[i] \o <<".", " ">>], <<>>) :
        ss \in WordSeqs(SentencePool, MaxSentencesInText) \ {<<>>}}
    \cup {ExampleText, Chars(" . ")}

AskedQuestions ==
    {Chars("What is the salary?"), Chars("salary NOTICE"), Chars("the fee"), Chars("When does payment start"),
     Chars("notice.of")}

\* a function of the pipeline about to be applied to its arguments
Call(fn, text, question) ==
    [route |-> "none", fn |-> fn, text |-> text, question |-> question]

Calling(fn) == response.route = "none" /\ response.fn = fn

\* the function has returned
Return(returned) ==
    /\ response' = [route |-> response.fn, returned |-> returned] @@ response
    /\ UNCHANGED <<index, documents, diskIndex, diskDocs, ghosts, threads,
                   app_documents, rag_pipeline, rag_documents, rag_vector_store,
                   ai_available, issued, inflight>>

\* _analyze_basic(text, document_id)
BasicAnalysis ==
    /\ Calling("_analyze_basic")
    /\ Return(AnalyzeBasic(response.text, "A"))

\* _answer_basic(text, question)
BasicAnswer ==
    /\ Calling("_answer_basic")
    /\ Return(AnswerBasic(response.text, response.question))

\* pipeline.py lines 501-532 with the full_text that analyze_document stored
\* for the one chunk of a document and with no model
AnswerOfStored(a, question) ==
    AnswerFromText(a.full_text, FALSE, question, EmptyReply).answer

\* a pipeline without a model analyzes a document of one chunk and is asked
\* about it
HeuristicAnswer ==
    /\ Calling("answer_question")
    /\ Return(AnswerOfStored(
                  Analyzed(FALSE, <<[page_content |-> response.text]>>, "A", EmptyReply),
                  response.question))

\* app.py lines 310-368 of what the pipeline returned
FormatOfAnalyzed(a) == FormatAnalysis(a.analysis, "A")

\* the analyze route of app.py for a document of one chunk, the pipeline
\* having no model
HeuristicAnalysis ==
    /\ Calling("analyze")
    /\ Return(FormatOfAnalyzed(
                  Analyzed(FALSE, <<[page_content |-> response.text]>>, "A", EmptyReply)))

BasicCalls ==
    {Call("_analyze_basic", text, NoQuestion) : text \in BasicTexts \cup {ExampleText}}
    \cup {Call("_answer_basic", text, question) :
              text \in SentenceTexts, question \in AskedQuestions}
    \cup {Call("answer_question", ExampleText, question) : question \in AskedQuestions}
    \cup {Call("analyze", text, NoQuestion) : text \in SentencePool \cup {ExampleText}}

InitBasic ==
    /\ StoreInit
    /\ app_documents = <<>>
    /\ rag_pipeline = TRUE
    /\ rag_documents = <<>>
    /\ rag_vector_store = <<>>
    /\ ai_available = FALSE
    /\ response \in BasicCalls
    /\ issued = {}
    /\ inflight = NoRequest

NextBasic ==
    \/ BasicAnalysis
    \/ BasicAnswer
    \/ HeuristicAnswer
    \/ HeuristicAnalysis

SpecBasic == InitBasic /\ [][NextBasic]_vars

\* the table of the if/elif chain as the rule of the highest count reads it:
\* the categories in the order of their declaration, each with its keywords
Categories ==
    <<[words |-> EmploymentWords, type |-> Chars("Employment Contract")],
      [words |-> ServiceWords, type |-> Chars("Service Agreement")],
      [words |-> NdaWords, type |-> Chars("Non-Disclosure Agreement")],
      [words |-> LeaseWords, type |-> Chars("Lease Agreement")],
      [words |-> PurchaseWords, type |-> Chars("Purchase Agreement")]>>

\* the number of keywords of a category that occur in the text
Score(words, text_lower) ==
    Cardinality({i \in 1..Len(words) : Contains(text_lower, words[i])})

HighestScore(text_lower) ==
    LET scores == [c \in 1..Len(Categories) |-> Score(Categories[c].words, text_lower)]
        best == CHOOSE c \in 1..Len(Categories) :
                    /\ \A o \in 1..Len(Categories) : scores[o] <= scores[c]
                    /\ \A o \in 1..(c - 1) : scores[o] < scores[c]
    IN  IF scores[best] = 0 THEN Chars("Legal Document") ELSE Categories[best].type

\* C21: the heuristic pass classifies the document type as the category with
\* the highest nonzero count of keywords found in the text, the earlier
\* category of the table winning a tie, and as the default category when no
\* keyword is found, whatever the keyword hits of the text are.
C21_HighestCountWins ==
    response.route = "_analyze_basic"
        => response.returned.document_type = HighestScore(Lower(response.text))

\* ------------------------------------------------------------ _answer_basic
\* the tokens of the question that survive: neither a stop-word nor shorter
\* than 4 characters
Survivors(question) ==
    SelectSeq(SplitWords(Lower(question)), LAMBDA w : Len(w) >= 4 /\ w \notin StopWords)

\* the sentences of the document, in its order
SentencesOf(text) ==
    LET pieces == SplitOn(text, ".")
    IN  SelectSeq([i \in 1..Len(pieces) |-> Strip(pieces[i])], LAMBDA s : s # <<>>)

Mentions(sentence, tokens) ==
    \E i \in 1..Len(tokens) : Contains(Lower(sentence), tokens[i])

\* the sentences at the positions of pick, in the order of the document
Picked(sentences, pick) ==
    LET at == SelectSeq([i \in 1..Len(sentences) |-> i], LAMBDA i : i \in pick)
    IN  [k \in 1..Len(at) |-> sentences[at[k]]]

\* the enumerated list of the sentences followed by the note
Listing(sentences) ==
    Chars("Based on the document content:\n\n")
    \o Numbered(sentences, 1)
    \o Chars("Note: This is a basic keyword search. For more detailed AI-powered answers, ensure your Gemini API key is properly configured.")

AnswersAsClaimed(text, question, returned, tokens, sentences) ==
    /\ returned # <<>>
    /\ (\E i \in 1..Len(sentences) : Mentions(sentences[i], tokens))
           => \E pick \in SUBSET {i \in 1..Len(sentences) : Mentions(sentences[i], tokens)} :
                  /\ Cardinality(pick) \in 1..MaxSentences
                  /\ returned = Listing(Picked(sentences, pick))
    /\ (\A i \in 1..Len(tokens) : ~Contains(Lower(text), tokens[i]))
           => returned = NotFoundAnswer(question)

\* C22: for every non-empty text and question _answer_basic returns a
\* non-empty string; when a token of the question that is neither a
\* stop-word nor shorter than 4 characters occurs in a sentence of the
\* document, the string is the enumerated list of at most 3 sentences that
\* each contain such a token, in the order of the document, followed by the
\* note on basic matching; when no such token occurs anywhere in the
\* document, it is the not-found message.
C22_AnswerBasicContract ==
    (response.route = "_answer_basic" /\ response.text # <<>> /\ response.question # <<>>)
        => AnswersAsClaimed(response.text, response.question, response.returned,
                            Survivors(response.question), SentencesOf(response.text))

\* four sentences of the document contain a token of the question and the
\* first three of them are listed
C22_Witness ==
    /\ response.route = "_answer_basic"
    /\ response.question = Chars("salary NOTICE")
    /\ Len(SentencesOf(response.text)) = 4
    /\ \A i \in 1..4 : Mentions(SentencesOf(response.text)[i], Survivors(response.question))
    /\ response.returned = Listing(SubSeq(SentencesOf(response.text), 1, 3))

\* C23: for the document of the example, the question "What is the salary?"
\* answered by a pipeline without a model returns a text that contains the
\* sentence with "$5000".
C23_SalaryQuestionAnswered ==
    (/\ response.route = "answer_question"
     /\ response.text = ExampleText
     /\ response.question = Chars("What is the salary?"))
    => Contains(response.returned,
                Chars("This Employment Agreement sets the Employee salary at $5000 per month"))

\* C24: for the document of the example the analyze operation without a
\* model returns an employment-related document type, a risks list with a
\* termination-related risk in it, and financial terms with at least one
\* monetary figure.
C24_ExampleAnalysis ==
    (response.route = "analyze" /\ response.text = ExampleText)
    => /\ Contains(Lower(response.returned.document_type), Chars("employment"))
       /\ \E i \in 1..Len(response.returned.risks) :
              Contains(Lower(response.returned.risks[i].title), Chars("termination"))
       /\ response.returned.financial_terms # <<>>

\* the part of C24 on the document type and the risks
C24_TypeAndRisk ==
    (response.route = "analyze" /\ response.text = ExampleText)
    => /\ response.returned.document_type = Chars("Employment Contract")
       /\ response.returned.risks[1].title = Chars("Termination Clauses")

\* ==========================================================================
\* Claims about the processing status of a document record
\* ==========================================================================
Statuses == {"uploaded", "analyzing", "completed", "error"}

\* the moves of the status along uploaded -> analyzing -> completed | error
Forward ==
    {<<"uploaded", "analyzing">>, <<"analyzing", "completed">>, <<"analyzing", "error">>}

\* an analyze request for a document analyzed before starts from its outcome
Again == {<<"completed", "analyzing">>, <<"error", "analyzing">>}

\* an analyze request for d is in progress
Analyzing(request, d) == request.at # "idle" /\ request.doc = d

\* One step of the server as the status of d sees it: the record of d comes
\* into being as 'uploaded', its status takes the four values only and moves
\* only by a move of `moves`, is 'analyzing' only while an analyze request
\* for d is in progress, and is 'completed' or 'error' when an analyze
\* request for d has returned.
StatusStep(d, moves) ==
    /\ (d \notin Keys(app_documents) /\ d \in Keys(app_documents'))
           => Entry(app_documents', d).status = "uploaded"
    /\ d \in Keys(app_documents') =>
           /\ Entry(app_documents', d).status \in Statuses
           /\ Entry(app_documents', d).status = "analyzing" => Analyzing(inflight', d)
           /\ (Analyzing(inflight, d) /\ inflight' = NoRequest)
                  => Entry(app_documents', d).status \in {"completed", "error"}
    /\ (d \in Keys(app_documents) /\ d \in Keys(app_documents'))
           => \/ Entry(app_documents', d).status = Entry(app_documents, d).status
              \/ <<Entry(app_documents, d).status, Entry(app_documents', d).status>> \in moves

\* C25 as stated: the status of a document record takes the values uploaded,
\* analyzing, completed and error only and moves only along
\* uploaded -> analyzing -> completed | error; it is 'uploaded' from the
\* upload until the first analyze request, 'analyzing' only while an analyze
\* request is in progress, and 'completed' or 'error' after every analyze
\* request that returns.
C25_OnlyForward == [][\A d \in DocIds : StatusStep(d, Forward)]_vars

\* C25 amended: as above, and a later analyze request for the document takes
\* the status from 'completed' or 'error' back to 'analyzing'.
C25_ForwardOrAgain == [][\A d \in DocIds : StatusStep(d, Forward \cup Again)]_vars

\* a document that was analyzed before is being analyzed again
C25_Witness ==
    \E d \in Keys(app_documents) :
        /\ Entry(app_documents, d).status = "analyzing"
        /\ Entry(app_documents, d).analysis # NoAnalysis
        /\ Analyzing(inflight, d)

\* ==========================================================================
\* Part 4.  Document processing: the text of an uploaded file cut into chunks
\* ==========================================================================
\* The sizes are scaled down: DocumentProcessor is made with chunk_size 1000
\* and chunk_overlap 200 characters (config.py lines 22-23), and
\* basic_document_processing cuts chunks of 200 words (app.py line 160).
ChunkSize == 8

ChunkOverlap == 3

ChunkWords == 2

MaxDocWords == 9

\* The files: the words 1, 2, ..., n with one space between them, as they
\* are, with a space before and a line break behind, or with a space behind;
\* the empty file and files of whitespace are among them.
NumberedText(n) == Join([i \in 1..n |-> Str(i)], <<" ">>)

FileContents ==
    UNION {{NumberedText(n), <<" ">> \o NumberedText(n) \o <<"\n">>,
            NumberedText(n) \o <<" ">>} : n \in 0..MaxDocWords}

\* ----------------------------------- RecursiveCharacterTextSplitter.split_text
\* The splitter of langchain as DocumentProcessor makes it (keep_separator and
\* strip_whitespace at their defaults), for a text of one line whose words are
\* shorter than chunk_size and have single spaces between them.
\* The splits: the text cut before each space, or, when there is no space in
\* it, its characters; empty splits are dropped.
Splits(text) ==
    IF Contains(text, <<" ">>)
    THEN LET words == SplitOn(text, " ")
         IN  SelectSeq([k \in 1..Len(words) |->
                            IF k = 1 THEN words[1] ELSE <<" ">> \o words[k]],
                       LAMBDA s : s # <<>>)
    ELSE [k \in 1..Len(text) |-> <<text[k]>>]

\* _join_docs: the splits joined and stripped, None for an empty text
JoinDocs(current_doc) ==
    LET text == Strip(Join(current_doc, <<>>))
    IN  IF text = <<>> THEN <<>> ELSE <<text>>

\* _merge_splits, the loop that drops splits from the front of current_doc
\* until what is left fits the overlap and makes room for the next split
RECURSIVE PopFront(_, _, _)
PopFront(current_doc, total, len) ==
    IF total > ChunkOverlap \/ (total + len > ChunkSize /\ total > 0)
    THEN PopFront(Tail(current_doc), total - Len(Head(current_doc)), len)
    ELSE [current_doc |-> current_doc, total |-> total]

\* _merge_splits from the i-th split on
RECURSIVE MergeSplits(_, _, _, _, _)
MergeSplits(splits, i, docs, current_doc, total) ==
    IF i > Len(splits) THEN docs \o JoinDocs(current_doc)
    ELSE IF total + Len(splits[i]) > ChunkSize /\ current_doc # <<>>
    THEN MergeSplits(splits, i + 1, docs \o JoinDocs(current_doc),
                     PopFront(current_doc, total, Len(splits[i])).current_doc
                         \o <<splits[i]>>,
                     PopFront(current_doc, total, Len(splits[i])).total + Len(splits[i]))
    ELSE MergeSplits(splits, i + 1, docs, current_doc \o <<splits[i]>>,
                     total + Len(splits[i]))

SplitText(text) == MergeSplits(Splits(text), 1, <<>>, <<>>, 0)

\* ------------------------------------------ DocumentProcessor.process_document
\* _extract_txt_text returns the content stripped; the chunks are what the
\* splitter returns.  The document_id is a fresh uuid4, "A" here.
ProcessDocument(content, filename) ==
    [document_id |-> "A",
     filename |-> filename,
     text |-> Strip(content),
     chunks |-> SplitText(Strip(content)),
     chunk_count |-> Len(SplitText(Strip(content))),
     metadata |-> [filename |-> filename,
                   word_count |-> Len(SplitWords(Strip(content))),
                   character_count |-> Len(Strip(content))]]

\* --------------------------------------------------- basic_document_processing
\* words[i : i + chunk_size] joined by spaces, for i = 0, chunk_size, ...
WordChunks(words) ==
    [k \in 1..((Len(words) + ChunkWords - 1) \div ChunkWords) |->
        Join(SubSeq(words, (k - 1) * ChunkWords + 1, Min({k * ChunkWords, Len(words)})),
             <<" ">>)]

NoTextChunk(filename) == Chars("File ") \o filename \o Chars(" uploaded but no text extracted")

\* no failure
NoError == <<>>

\* `error` is the text of the exception that open() or read() raised, NoError
\* when the file was read
BasicDocumentProcessing(content, filename, error) ==
    IF error # NoError
    THEN [document_id |-> "A",
          text |-> Chars("Error processing ") \o filename \o Chars(": ") \o error,
          chunks |-> <<Chars("File ") \o filename \o Chars(" uploaded with processing error")>>,
          chunk_count |-> 1,
          metadata |-> [filename |-> filename, error |-> error]]
    ELSE LET chunks == WordChunks(SplitWords(content))
         IN  [document_id |-> "A",
              text |-> content,
              chunks |-> IF chunks = <<>> THEN <<NoTextChunk(filename)>> ELSE chunks,
              chunk_count |-> IF chunks = <<>> THEN 1 ELSE Len(chunks),
              metadata |-> [filename |-> filename,
                            word_count |-> Len(SplitWords(content)),
                            char_count |-> Len(content)]]

\* ------------------------------------------------- upload_document of app.py
\* lines 247-273: the record stored for the file.  `processor` is the text of
\* the exception process_document raised (NoError when it returned),
\* `fallback` that of the exception inside basic_document_processing, and
\* `available` whether a DocumentProcessor could be made.
UploadRecord(processed_data, filename) ==
    [filename |-> filename, processed_data |-> processed_data, status |-> "uploaded"]

UploadProcessed(content, filename, available, processor, fallback) ==
    UploadRecord(IF available /\ processor = NoError
                 THEN ProcessDocument(content, filename)
                 ELSE BasicDocumentProcessing(content, filename, fallback),
                 filename)

\* --------------------------------------------- upload_document of app_working.py
\* lines 108-159: without a DocumentProcessor the text file is read, and
\* `fallback` is the text of what open() or read() raised
UploadProcessedWorking(content, filename, available, processor, fallback) ==
    UploadRecord(
        IF available /\ processor = NoError THEN ProcessDocument(content, filename)
        ELSE IF available
        THEN [document_id |-> "A", filename |-> filename,
              text |-> Chars("File ") \o filename \o Chars(" uploaded - processing failed: ")
                       \o processor,
              chunks |-> <<Chars("Content of ") \o filename>>,
              chunk_count |-> 1,
              metadata |-> [filename |-> filename, word_count |-> 0]]
        ELSE IF fallback = NoError
        THEN [document_id |-> "A", filename |-> filename,
              text |-> content,
              chunks |-> <<content>>,
              chunk_count |-> 1,
              metadata |-> [filename |-> filename,
                            word_count |-> Len(SplitWords(content))]]
        ELSE [document_id |-> "A", filename |-> filename,
              text |-> Chars("File ") \o filename \o Chars(" uploaded - text extraction failed"),
              chunks |-> <<Chars("Content of ") \o filename>>,
              chunk_count |-> 1,
              metadata |-> [filename |-> filename, word_count |-> 0]],
        filename)

\* -------------------------------------------------------------------- the calls
ProcessDocumentCall ==
    /\ Calling("process_document")
    /\ Return(ProcessDocument(response.text, Chars("a.txt")))

BasicDocumentProcessingCall ==
    /\ Calling("basic_document_processing")
    /\ Return(BasicDocumentProcessing(response.text, Chars("a.txt"), NoError))

UploadCall ==
    /\ Calling("upload_document")
    /\ Return(UploadProcessed(response.text, Chars("a.txt"), response.available,
                              response.processor, response.fallback))

UploadWorkingCall ==
    /\ Calling("app_working.upload_document")
    /\ Return(UploadProcessedWorking(response.text, Chars("a.txt"), response.available,
                                     response.processor, response.fallback))

\* what process_document raises for a file it cannot read (line 41), and
\* what open() raises in the fallback
ProcessorErrors ==
    {NoError, Chars("Document processing failed: TXT extraction failed: 'utf-8' codec can't decode byte 0xff")}

FallbackErrors == {NoError, Chars("[Errno 13] Permission denied: 'a.txt'")}

\* the uploads: process_document is not called without a DocumentProcessor,
\* and the fallback is not called when process_document returned
UploadPlans ==
    {[available |-> TRUE, processor |-> NoError, fallback |-> NoError]}
    \cup {[available |-> TRUE, processor |-> e, fallback |-> f] :
              e \in ProcessorErrors \ {NoError}, f \in FallbackErrors}
    \cup {[available |-> FALSE, processor |-> NoError, fallback |-> f] : f \in FallbackErrors}

UploadCalls ==
    {Call(fn, content, NoQuestion) @@ plan :
        fn \in {"upload_document", "app_working.upload_document"},
        content \in FileContents, plan \in UploadPlans}

ChunkCalls ==
    {Call(fn, content, NoQuestion) :
        fn \in {"process_document", "basic_document_processing"}, content \in FileContents}
    \cup UploadCalls

InitChunk ==
    /\ StoreInit
    /\ app_documents = <<>>
    /\ rag_pipeline = TRUE
    /\ rag_documents = <<>>
    /\ rag_vector_store = <<>>
    /\ ai_available = FALSE
    /\ response \in ChunkCalls
    /\ issued = {}
    /\ inflight = NoRequest

NextChunk ==
    \/ ProcessDocumentCall
    \/ BasicDocumentProcessingCall
    \/ UploadCall
    \/ UploadWorkingCall

SpecChunk == InitChunk /\ [][NextChunk]_vars

\* ------------------------------------------------------------------- the claim
\* the number of words at the end of `before` that `chunk` starts with again
Overlap(before, chunk) ==
    LET fits == {k \in 0..Min({Len(before), Len(chunk)}) :
                    SubSeq(before, Len(before) - k + 1, Len(before)) = SubSeq(chunk, 1, k)}
    IN  CHOOSE k \in fits : \A o \in fits : o <= k

\* the words of the chunks from the i-th on, put behind `before` without the
\* overlaps
RECURSIVE Rebuilt(_, _, _)
Rebuilt(chunks, i, before) ==
    IF i > Len(chunks) THEN before
    ELSE Rebuilt(chunks, i + 1,
                 before \o SubSeq(SplitWords(chunks[i]),
                                  Overlap(before, SplitWords(chunks[i])) + 1,
                                  Len(SplitWords(chunks[i]))))

ProcessedAsClaimed(content, chunks) ==
    /\ chunks # <<>>
    /\ SplitWords(content) = <<>> => Len(chunks) = 1
    /\ SplitWords(content) # <<>> => Rebuilt(chunks, 1, <<>>) = SplitWords(content)

\* C26: for any extracted text, the empty text included, document processing
\* yields a non-empty chunk list, a single placeholder chunk when the text
\* has no content, and the chunks in order without their overlaps give back
\* the content of the text in order, nothing dropped and nothing twice; for
\* DocumentProcessor.process_document and for basic_document_processing.
C26_ChunksReconstructText ==
    response.route \in {"process_document", "basic_document_processing"}
        => ProcessedAsClaimed(response.text, response.returned.chunks)

\* the part of C26 that holds: basic_document_processing for every text, and
\* process_document for every text with content
C26_ExceptEmptyProcessed ==
    (\/ response.route = "basic_document_processing"
     \/ response.route = "process_document" /\ SplitWords(response.text) # <<>>)
        => ProcessedAsClaimed(response.text, response.returned.chunks)

\* ==========================================================================
\* Claims about uploads whose processing fails
\* ==========================================================================
\* the processing of the upload failed: process_document raised, or, without
\* a DocumentProcessor, the read of the fallback did
ProcessingFailed(call) == call.processor # NoError \/ call.fallback # NoError

\* the record has a document id, a non-empty chunk list and the status
\* 'uploaded'
PlaceholderRecord(record) ==
    /\ record.status = "uploaded"
    /\ record.processed_data.document_id \in DocIds
    /\ record.processed_data.chunks # <<>>

\* the metadata of the record hold the text of an error that occurred
ErrorRetained(call, record) ==
    /\ "error" \in DOMAIN record.processed_data.metadata
    /\ record.processed_data.metadata.error \in {call.processor, call.fallback} \ {NoError}

\* C28: when the processing of an uploaded file fails, the upload still
\* succeeds with a document record that has a non-empty chunk list, a
\* document id and the status 'uploaded', and the text of the error is kept
\* in the metadata of the record: when DocumentProcessor fails and the
\* fallback succeeds, and when both fail.
C28_FailedProcessingKeepsError ==
    (response.route \in {"upload_document", "app_working.upload_document"}
     /\ ProcessingFailed(response))
        => PlaceholderRecord(response.returned) /\ ErrorRetained(response, response.returned)

\* the part of C28 that holds in app.py and app_working.py: with the failing
\* text files of the model the record is stored, has chunks, an id and the
\* status 'uploaded'
C28_RecordStored ==
    (response.route \in {"upload_document", "app_working.upload_document"}
     /\ ProcessingFailed(response))
        => PlaceholderRecord(response.returned)

\* ==========================================================================
\* Part 5.  The cleaning of the texts of the external model
\* ==========================================================================
\* The strings are made of pieces: emphasis markers, blanks, line breaks and
\* a letter.
Pieces == {<<"*">>, <<"_">>, <<"_", "_">>, <<" ">>, <<"\t">>, <<"\n">>, <<"a">>}

MaxPieces == 5

PieceStrings(n) == {Join(ps, <<>>) : ps \in WordSeqs(Pieces, n)}

\* what the model answers in the calls of _answer_with_ai and _analyze_with_ai
AiTexts == {reply.text : reply \in {r \in Replies : r.kind = "text"}} \cup PieceStrings(2)

\* _clean_ai_response(text)
CleanCall ==
    /\ Calling("_clean_ai_response")
    /\ Return(CleanAiResponse(response.text))

\* _answer_with_ai(text, question) for the document of the examples, the
\* model answering response.text
AnswerWithAiCall ==
    /\ Calling("_answer_with_ai")
    /\ Return(AnswerWithAi(ExampleText, response.question, Reply(response.text)).answer)

\* _analyze_with_ai(text) for the document of the examples, the model
\* answering response.text
AnalyzeWithAiCall ==
    /\ Calling("_analyze_with_ai")
    /\ Return(AnalyzeWithAi(TRUE, ExampleText, Reply(response.text)))

CleanCalls ==
    {Call("_clean_ai_response", s, NoQuestion) : s \in PieceStrings(MaxPieces)}
    \cup {Call("_answer_with_ai", s, Chars("What is the salary?")) : s \in AiTexts}
    \cup {Call("_analyze_with_ai", s, NoQuestion) : s \in AiTexts}

InitClean ==
    /\ StoreInit
    /\ app_documents = <<>>
    /\ rag_pipeline = TRUE
    /\ rag_documents = <<>>
    /\ rag_vector_store = <<>>
    /\ ai_available = TRUE
    /\ response \in CleanCalls
    /\ issued = {}
    /\ inflight = NoRequest

NextClean ==
    \/ CleanCall
    \/ AnswerWithAiCall
    \/ AnalyzeWithAiCall

SpecClean == InitClean /\ [][NextClean]_vars

\* a text without asterisks, without three line breaks in a row, without two
\* blanks (spaces or tabs) in a row, and without a line that starts or ends
\* with whitespace
Tidy(s) ==
    /\ \A i \in 1..Len(s) : s[i] # "*"
    /\ \A i \in 1..(Len(s) - 2) : ~(s[i] = "\n" /\ s[i + 1] = "\n" /\ s[i + 2] = "\n")
    /\ \A i \in 1..(Len(s) - 1) : ~(s[i] \in {" ", "\t"} /\ s[i + 1] \in {" ", "\t"})
    /\ \A k \in 1..Len(SplitOn(s, "\n")) :
           LET line == SplitOn(s, "\n")[k]
           IN  line # <<>> => (line[1] \notin Whitespace /\ line[Len(line)] \notin Whitespace)

TidyAnalysis(raw, ai) ==
    /\ ai.ai_analysis_full = CleanAiResponse(Strip(raw))
    /\ \A field \in {"summary", "ai_analysis_full", "document_type", "risks_analysis",
                     "key_terms"} : Tidy(ai[field])

C30_CleanIdempotent ==
    response.route = "_clean_ai_response"
        => CleanAiResponse(response.returned) = response.returned

\* ==========================================================================
\* Part 6.  The analyze operation of app_working.py with GeminiAnalyzer
\* ==========================================================================
\* What self.model.generate_content and json.loads make of one call: the
\* call raises, the text of the response is no JSON, or it is the JSON of a
\* dict (kept as a record whose fields are the keys of the dict).
GeminiRaises(msg) == [kind |-> "raises", text |-> msg]

GeminiText(text) == [kind |-> "text", text |-> text]

GeminiJson(value) == [kind |-> "json", value |-> value]

\* no GeminiAnalyzer could be made (no API key)
NoGemini == [kind |-> "none"]

\* ---------------------------------------------------- _parse_text_response
\* the number of characters up to the end of the first `word`, in any case
\* of letters, and of the ':' or '-' behind it; -1 when the word is not there
LabelEnd(text, word) ==
    LET at == Find(Lower(text), word, 0)
        colon == IF at # -1 /\ at + Len(word) + 1 <= Len(text)
                    /\ text[at + Len(word) + 1] \in {":", "-"}
                 THEN 1 ELSE 0
    IN  IF at = -1 THEN -1 ELSE at + Len(word) + colon

\* [A-Z] under (?i)
Letters == UpperCase \cup {LowerOf[c] : c \in UpperCase}

\* \s*(.*?)(?=\n\n|\n[A-Z]|$) behind a label that ends at `from`: the text
\* behind the whitespace up to the first blank line, the first line that
\* starts with a letter, or the end
SummaryBehind(text, from) ==
    LET p == RunEnd(text, from + 1) + 1
        stops == {i \in p..Len(text) :
                     /\ text[i] = "\n"
                     /\ i < Len(text)
                     /\ (text[i + 1] = "\n" \/ text[i + 1] \in Letters)}
    IN  SubSeq(text, p, IF stops = {} THEN Len(text) ELSE Min(stops) - 1)

TypeStops == {"\n", ".", ","}

\* \s*(.*?)(?=\n|\.|,) behind a label that ends at `from`: the text behind
\* the whitespace up to the first line break, full stop or comma; when none
\* follows the whitespace, a line break inside it ends an empty match
TypeBehind(text, from, default) ==
    LET p == RunEnd(text, from + 1) + 1
        stops == {i \in p..Len(text) : text[i] \in TypeStops}
    IN  IF stops # {} THEN SubSeq(text, p, Min(stops) - 1)
        ELSE IF \E i \in (from + 1)..(p - 1) : text[i] \in TypeStops THEN <<>>
        ELSE default

ParseTextResponse(text) ==
    LET summary_at == LabelEnd(text, Chars("summary"))
        type_at == LabelEnd(text, Chars("document type"))
    IN  [document_type |->
             IF type_at = -1 THEN Chars("Legal Document")
             ELSE Strip(TypeBehind(text, type_at, Chars("Legal Document"))),
         summary |-> IF summary_at = -1 THEN <<>>
                     ELSE Strip(SummaryBehind(text, summary_at)),
         parties |-> <<>>, dates |-> <<>>, financial_terms |-> <<>>, key_terms |-> <<>>,
         rights_obligations |-> <<>>, risks |-> <<>>, recommendations |-> <<>>]

\* ----------------------------------------------------------- _format_analysis
\* _format_risks for a list of dicts
FormatRisks(risks) ==
    IF risks = <<>>
    THEN <<Risk(Chars("No specific risks identified"), Chars("Document appears standard"), Chars("Low"))>>
    ELSE [i \in 1..Len(risks) |->
             Risk(Get(risks[i], "title", Chars("Risk")),
                  Get(risks[i], "description", Chars("Review required")),
                  Get(risks[i], "level", Chars("Medium")))]

\* _format_key_terms for a list of dicts: those with a 'term' are kept
FormatKeyTerms(terms) == SelectSeq(terms, LAMBDA term : "term" \in DOMAIN term)

FormatGeminiAnalysis(parsed) ==
    [document_type |-> Get(parsed, "document_type", Chars("Legal Document")),
     summary |-> Get(parsed, "summary", Chars("Document analysis completed.")),
     parties |-> Get(parsed, "parties", <<>>),
     dates |-> Get(parsed, "dates", <<>>),
     financial_terms |-> Get(parsed, "financial_terms", <<>>),
     key_terms |-> FormatKeyTerms(Get(parsed, "key_terms", <<>>)),
     rights_obligations |-> Get(parsed, "rights_obligations", <<>>),
     risks |-> FormatRisks(Get(parsed, "risks", <<>>)),
     recommendations |-> Get(parsed, "recommendations", <<>>)]

\* --------------------------------------------- GeminiAnalyzer.analyze_document
GeminiAnalyzeDocument(outcome) ==
    IF outcome.kind = "raises"
    THEN [document_type |-> Chars("Legal Document"),
          summary |-> Chars("Analysis error: ") \o outcome.text
                      \o Chars(". Document processed but detailed analysis unavailable."),
          parties |-> <<>>, dates |-> <<>>, financial_terms |-> <<>>, key_terms |-> <<>>,
          rights_obligations |-> <<>>, risks |-> <<>>, recommendations |-> <<>>]
    ELSE IF outcome.kind = "text" THEN FormatGeminiAnalysis(ParseTextResponse(outcome.text))
    ELSE FormatGeminiAnalysis(outcome.value)

\* -------------------------------------------- analyze_document of app_working.py
\* lines 189-197
WorkingDocType(text_lower) ==
    IF AnyIn(<<Chars("employment"), Chars("employee"), Chars("job")>>, text_lower)
    THEN Chars("Employment Contract")
    ELSE IF AnyIn(<<Chars("service"), Chars("services")>>, text_lower) THEN Chars("Service Agreement")
    ELSE IF AnyIn(<<Chars("confidential"), Chars("non-disclosure")>>, text_lower)
    THEN Chars("Non-Disclosure Agreement")
    ELSE IF AnyIn(<<Chars("lease"), Chars("rent")>>, text_lower) THEN Chars("Lease Agreement")
    ELSE Chars("Legal Document")

\* lines 199-213: the analysis made before GeminiAnalyzer is tried
WorkingBasicAnalysis(text, filename) ==
    [document_type |-> WorkingDocType(Lower(text)),
     summary |-> Chars("This appears to be a ") \o WorkingDocType(Lower(text))
                 \o Chars(" containing ") \o Str(Len(SplitWords(text))) \o Chars(" words."),
     parties |-> <<>>, dates |-> <<>>, financial_terms |-> <<>>,
     key_terms |-> <<[term |-> Chars("Document Processing"),
                      definition |-> Chars("Successfully processed ") \o filename]>>,
     rights_obligations |-> <<>>,
     risks |-> <<Risk(Chars("Basic Analysis"), Chars("Document processed with basic analysis"),
                      Chars("Low"))>>,
     recommendations |-> <<>>]

\* lines 215-222: analysis.update(gemini_analysis); the dict that
\* analyze_document returns is never empty
WorkingAnalysis(text, filename, outcome) ==
    IF outcome.kind = "none" THEN WorkingBasicAnalysis(text, filename)
    ELSE Update(WorkingBasicAnalysis(text, filename), GeminiAnalyzeDocument(outcome))

\* the analysis stored and returned by the route
WorkingAnalyzeCall ==
    /\ Calling("app_working.analyze_document")
    /\ Return(WorkingAnalysis(response.text, Chars("a.txt"), response.gemini))

\* the outcomes of the call of the model: no analyzer, a quota error, an
\* answer in prose, an answer in prose with labels, the JSON of a dict with
\* a summary only, and the JSON of a whole analysis
GeminiOutcomes ==
    {NoGemini,
     GeminiRaises(Chars("429 quota")),
     GeminiText(Chars("I cannot analyze this.")),
     GeminiText(Chars("Document Type: Lease, signed.\nSummary: A lease\nof rooms.\nRisks: none")),
     GeminiJson([summary |-> Chars("A contract.")]),
     GeminiJson([document_type |-> Chars("Staff Contract"),
                 summary |-> Chars("A contract of employment."),
                 key_terms |-> <<[term |-> Chars("Salary"), definition |-> Chars("paid monthly")]>>,
                 risks |-> <<[title |-> Chars("Notice"), level |-> Chars("High")]>>])}

WorkingCalls ==
    {Call("app_working.analyze_document", text, NoQuestion) @@ [gemini |-> outcome] :
        text \in BasicTexts \cup {ExampleText}, outcome \in GeminiOutcomes}

InitWorking ==
    /\ StoreInit
    /\ app_documents = <<>>
    /\ rag_pipeline = FALSE
    /\ rag_documents = <<>>
    /\ rag_vector_store = <<>>
    /\ ai_available = FALSE
    /\ response \in WorkingCalls
    /\ issued = {}
    /\ inflight = NoRequest

NextWorking ==
    \/ WorkingAnalyzeCall

SpecWorking == InitWorking /\ [][NextWorking]_vars

\* the Gemini analysis failed: the call raised, the answer was no JSON, or
\* the JSON lacks keys of the analysis
GeminiFailed(outcome) ==
    \/ outcome.kind \in {"raises", "text"}
    \/ outcome.kind = "json"
           /\ ~({"document_type", "summary", "key_terms", "risks"} \subseteq DOMAIN outcome.value)

HeuristicFields == {"document_type", "summary", "key_terms", "risks"}

\* C29: in the analyze operation of app_working, when the Gemini analysis
\* fails (an exception inside GeminiAnalyzer.analyze_document, or output of
\* the model that cannot be parsed or is incomplete), the heuristic
\* document_type, summary, key_terms and risks computed before are kept in
\* the stored and returned analysis, and key_terms and risks are never empty.
C29_GeminiFailureKeepsHeuristic ==
    (response.route = "app_working.analyze_document" /\ GeminiFailed(response.gemini))
        => /\ \A field \in HeuristicFields :
                  response.returned[field]
                      = WorkingBasicAnalysis(response.text, Chars("a.txt"))[field]
           /\ response.returned.key_terms # <<>>
           /\ response.returned.risks # <<>>

====
